---- MODULE Spec2Model ----
(***************************************************************************)
(* Agent loop and conversation memory of beanbot.                          *)
(*                                                                         *)
(*   src/src/graph.py  trim_messages_for_context, agent_node,              *)
(*                     should_continue, workflow, init_graph               *)
(*   src/src/bot.py    BeanBot.process_llm_request,                        *)
(*                     BeanBot.run_daily_report_logic and their callers,   *)
(*                     BeanBot.db_prune, BeanBot._run_db_prune,            *)
(*                     BeanBot.clear and ConfirmView                       *)
(*   src/src/services/tools.py  delete_knowledge_file,                     *)
(*                     clear_all_knowledge_files, clear_entire_garden      *)
(*                                                                         *)
(* The specifications of the module:                                       *)
(*   Spec      the graph invocations (turns) of the bot, interleaved       *)
(*   SpecLive  Spec with the timer of asyncio.wait_for and the return of   *)
(*             ainvoke taken as fair                                       *)
(*   SpecTrim  trim_messages_for_context applied to bounded histories      *)
(*   SpecConv  agent_node's conversation for bounded thread histories      *)
(*   SpecStore the checkpoint database under db_prune, the !clear flows    *)
(*             and the delete-file tool                                    *)
(***************************************************************************)
EXTENDS Integers, Sequences, FiniteSets, TLC

\* ---------------------------------------------------------------- bounds
\* graph invocations started in one behaviour
MaxStarts == 2
\* tool calls carried by one model response
MaxCalls == 2
\* tool rounds the model asks for within one invocation
MaxRounds == 1
\* length of the histories given to trim_messages_for_context in SpecTrim
MaxLen == 5
\* values of the max_turns argument tried in SpecTrim
MaxTurnsArg == 3

\* completed turns of the thread histories given to agent_node in SpecConv
MaxConvTurns == 2

\* checkpoints a thread holds at most in SpecStore
MaxRevs == 25

\* ------------------------------------------------------- program constants
\* bot.py INGESTION_CHUNK_SIZE: characters of one chunk sent as a Human message
INGESTION_CHUNK_SIZE == 50000
\* bot.py DB_PRUNE_RETENTION_DAYS: days an ephemeral thread is kept
DB_PRUNE_RETENTION_DAYS == 7
\* bot.py DB_PRUNE_MAX_CHECKPOINTS: checkpoints kept of a persistent thread
DB_PRUNE_MAX_CHECKPOINTS == 20
\* default of the max_turns parameter, the value agent_node runs with
DefaultMaxTurns == 10

VARIABLES
    store,      \* checkpoint store: thread id -> messages of the latest checkpoint
    pc,         \* position of each graph invocation
    thread,     \* thread id each invocation was configured with
    msgs,       \* the invocation's AgentState['messages']
    conv,       \* the conversation handed to model.invoke, while the call is open
    outcome,    \* what the caller got back
    rounds,     \* tool rounds the invocation has been through
    tin,        \* SpecTrim: messages argument
    tmax,       \* SpecTrim: max_turns argument
    tout,       \* SpecTrim: returned list
    tpc,        \* SpecTrim: "off" | "call" | "done"
    files,      \* SpecStore: names of the files in data/
    db,         \* SpecStore: committed rows of conversations.db, by table
    ptx,        \* SpecStore: rows as the open transaction of _run_db_prune sees them
    ppc,        \* SpecStore: position of _run_db_prune: phase and statement number
    running,    \* SpecStore: executions of _run_db_prune in progress
    clr,        \* SpecStore: the open !clear confirmation: command and step
    view,       \* SpecTasks: the open TaskConsolidateView
    tasks_md,   \* SpecTasks: content of data/tasks.md
    alerts      \* SpecGarden: weather alerts sent to the channel today

loopVars == <<store, pc, thread, msgs, conv, outcome, rounds>>
trimVars == <<tin, tmax, tout, tpc>>
storeVars == <<files, db, ptx, ppc, running, clr>>
flowVars == <<view, tasks_md, alerts>>
vars == <<store, pc, thread, msgs, conv, outcome, rounds, tin, tmax, tout, tpc,
          files, db, ptx, ppc, running, clr, view, tasks_md, alerts>>

\* ------------------------------------------------------------- messages
\* BaseMessage: role S(ystem) H(uman) A(I) T(ool); turn is the invocation that
\* created it (0 and below: turns persisted before the behaviour starts);
\* id is the message id add_messages keeps; calls is AIMessage.tool_calls;
\* call and status are ToolMessage.tool_call_id and ToolMessage.status; len is
\* the number of characters of the content; guidance is the channel guidance
\* the content begins with ("" for none).
SystemMessage == [role |-> "S", turn |-> 0, id |-> 0, calls |-> <<>>, call |-> <<>>, status |-> "none", len |-> 1, guidance |-> ""]

HumanMessage(t) == [role |-> "H", turn |-> t, id |-> 0, calls |-> <<>>, call |-> <<>>, status |-> "none", len |-> 1, guidance |-> ""]

AIMessage(t, calls) == [role |-> "A", turn |-> t, id |-> 0, calls |-> calls, call |-> <<>>, status |-> "none", len |-> 1, guidance |-> ""]

ToolMessage(t, cid, st) == [role |-> "T", turn |-> t, id |-> 0, calls |-> <<>>, call |-> cid, status |-> st, len |-> 1, guidance |-> ""]

\* names the model may put in a tool call: one registered in TOOLS, one not
ToolNames == {"tool_read_file", "read_file"}

TOOLS == {"tool_read_file"}

Last(s) == s[Len(s)]

\* add_messages reducer of AgentState.messages: the new messages carry no id,
\* so each gets a fresh one and is appended
add_messages(left, right) ==
    left \o [j \in 1..Len(right) |-> [right[j] EXCEPT !.id = Len(left) + j]]

\* ----------------------------------------------- trim_messages_for_context
\* human_indices = [i for i, m in enumerate(messages) if isinstance(m, HumanMessage)]
RECURSIVE IndicesFrom(_, _)
IndicesFrom(messages, i) ==
    IF i > Len(messages) THEN <<>>
    ELSE IF messages[i].role = "H"
         THEN <<i>> \o IndicesFrom(messages, i + 1)
         ELSE IndicesFrom(messages, i + 1)

human_indices(messages) == IndicesFrom(messages, 1)

\* faulty variant: the comparison written as <
within_window_strict(messages, max_turns) == Len(human_indices(messages)) < max_turns

\* if len(human_indices) <= max_turns: return messages
within_window(messages, max_turns) == Len(human_indices(messages)) <= max_turns

\* faulty variant: human_indices[-(max_turns + 1)], one turn too many
cutoff_idx_one_more(messages, max_turns) ==
    human_indices(messages)[Len(human_indices(messages)) - max_turns]

\* cutoff_idx = human_indices[-max_turns]   (1-based here)
cutoff_idx(messages, max_turns) ==
    human_indices(messages)[Len(human_indices(messages)) - max_turns + 1]

\* the leading SystemMessages: the loop breaks at the first other message
RECURSIVE LeadingFrom(_, _)
LeadingFrom(messages, i) ==
    IF i > Len(messages) \/ messages[i].role # "S" THEN <<>>
    ELSE <<messages[i]>> \o LeadingFrom(messages, i + 1)

leading_system(messages) == LeadingFrom(messages, 1)

\* faulty variant: messages[:cutoff_idx], the slice taken on the wrong side
window_prefix(messages, max_turns) ==
    SubSeq(messages, 1, cutoff_idx(messages, max_turns) - 1)

\* faulty variant: messages[cutoff_idx + 1:], the cut one message late
window_late(messages, max_turns) ==
    SubSeq(messages, cutoff_idx(messages, max_turns) + 1, Len(messages))

\* messages[cutoff_idx:]
window(messages, max_turns) ==
    SubSeq(messages, cutoff_idx(messages, max_turns), Len(messages))

trim_messages_for_context(messages, max_turns) ==
    IF within_window(messages, max_turns) THEN messages
    ELSE leading_system(messages) \o window(messages, max_turns)

\* agent_node: conversation = [SystemMessage(STATIC_SYSTEM_PROMPT)] + trimmed
conversation(messages) ==
    <<SystemMessage>> \o trim_messages_for_context(messages, DefaultMaxTurns)

\* faulty variant: the tool calls of the last message are not looked at
should_continue_end(messages) == "END"

\* should_continue: "tools" when the last message carries tool calls, else END
should_continue(messages) ==
    IF Len(Last(messages).calls) > 0 THEN "tools" ELSE "END"

\* ------------------------------------------------------- checkpointed graph
Turns == 1..MaxStarts

\* callers of process_llm_request, by the thread id they pass
Callers == {"on_message", "crawl_all", "recap"}

\* on_message and CrawlLinksView._crawl_all pass str(message.channel.id) of the
\* same channel; run_recap_logic passes f"recap_{today}"; run_daily_report_logic
\* configures f"daily_report_{today}"
thread_id(c) ==
    CASE c = "on_message" -> "chan"
      [] c = "crawl_all" -> "chan"
      [] c = "recap" -> "recap_today"
      [] c = "daily_report" -> "daily_report_today"

Threads == {"chan", "recap_today", "daily_report_today"}

\* faulty variant: the channel guidance sent as a SystemMessage of its own
inputs_with_system(n) == <<SystemMessage, HumanMessage(n)>>

\* guidance = CHANNEL_CONTEXT.get(channel_type, ""): the text the callers'
\* channel types map to; run_daily_report_logic builds its prompt without it
CHANNEL_CONTEXT(t) == IF t = "daily_report_today" THEN "" ELSE "[CONTEXT]"

\* inputs = {"messages": [HumanMessage(content=guidance + user_input)]}
inputs(n) == <<[HumanMessage(n) EXCEPT !.guidance = CHANNEL_CONTEXT(thread[n])]>>

\* a channel thread that already went through k turns, each answered without
\* tools
SeedHistory(k) ==
    [j \in 1..(2 * k) |->
        IF j % 2 = 1
        THEN [HumanMessage(((j + 1) \div 2) - k) EXCEPT !.id = j, !.guidance = CHANNEL_CONTEXT("chan")]
        ELSE [AIMessage((j \div 2) - k, <<>>) EXCEPT !.id = j]]

SeedTurns == {0, DefaultMaxTurns}

\* the responses model.invoke can give at message position i of invocation n
ToolCalls(n, i) ==
    UNION {[1..len -> {[cid |-> <<n, i, k>>, name |-> nm] : k \in 1..len, nm \in ToolNames}] :
                len \in 0..MaxCalls}

Responses(n, i) ==
    {c \in ToolCalls(n, i) : \A k \in 1..Len(c) : c[k].cid = <<n, i, k>>}

\* ToolNode(TOOLS): one ToolMessage per call, in call order; a name that is not
\* registered, or a tool that raises, gives a ToolMessage with status "error"
ToolStatuses(calls) ==
    {st \in [1..Len(calls) -> {"success", "error"}] :
        \A k \in 1..Len(calls) : calls[k].name \notin TOOLS => st[k] = "error"}

\* faulty variant: a call whose name is not registered gets no ToolMessage
RECURSIVE tool_node_skip_unknown(_, _, _)
tool_node_skip_unknown(n, calls, st) ==
    IF Len(calls) = 0 THEN <<>>
    ELSE (IF calls[1].name \in TOOLS THEN <<ToolMessage(n, calls[1].cid, st[1])>> ELSE <<>>)
         \o tool_node_skip_unknown(n, Tail(calls), Tail(st))

tool_node(n, calls, st) ==
    [k \in 1..Len(calls) |-> ToolMessage(n, calls[k].cid, st[k])]

\* no table holds a row
EmptyTables == [checkpoints |-> {}, writes |-> {}]

InitStoreOff ==
    /\ files = {}
    /\ db = EmptyTables
    /\ ptx = EmptyTables
    /\ ppc = [phase |-> "off", k |-> 0]
    /\ running = 0
    /\ clr = [kind |-> "none", step |-> 0]

InitFlowOff ==
    /\ view = [phase |-> "off"]
    /\ tasks_md = <<>>
    /\ alerts = [sent |-> 0, flag |-> ""]

InitTrimOff ==
    /\ tin = <<>>
    /\ tmax = 1
    /\ tout = <<>>
    /\ tpc = "off"

Init ==
    /\ store \in {[t \in Threads |-> IF t = "chan" THEN SeedHistory(k) ELSE <<>>] : k \in SeedTurns}
    /\ pc = [n \in Turns |-> "idle"]
    /\ thread = [n \in Turns |-> "none"]
    /\ msgs = [n \in Turns |-> <<>>]
    /\ conv = [n \in Turns |-> <<>>]
    /\ outcome = [n \in Turns |-> "none"]
    /\ rounds = [n \in Turns |-> 0]
    /\ InitTrimOff
    /\ InitStoreOff
    /\ InitFlowOff

\* invocations are numbered in the order they start
CanStart(n) == pc[n] = "idle" /\ (IF n = 1 THEN TRUE ELSE pc[n - 1] # "idle")

\* process_llm_request up to the call of app_graph.ainvoke
process_llm_request(n, c) ==
    /\ CanStart(n)
    /\ pc' = [pc EXCEPT ![n] = "load"]
    /\ thread' = [thread EXCEPT ![n] = thread_id(c)]
    /\ UNCHANGED <<store, msgs, conv, outcome, rounds, trimVars, storeVars, flowVars>>

\* run_daily_report_logic up to the call of app_graph.ainvoke
run_daily_report_logic(n) ==
    /\ CanStart(n)
    /\ pc' = [pc EXCEPT ![n] = "load"]
    /\ thread' = [thread EXCEPT ![n] = thread_id("daily_report")]
    /\ UNCHANGED <<store, msgs, conv, outcome, rounds, trimVars, storeVars, flowVars>>

\* ainvoke reads the thread's latest checkpoint and adds the input to it
graph_load(n) ==
    /\ pc[n] = "load"
    /\ msgs' = [msgs EXCEPT ![n] = add_messages(store[thread[n]], inputs(n))]
    /\ pc' = [pc EXCEPT ![n] = "input"]
    /\ UNCHANGED <<store, thread, conv, outcome, rounds, trimVars, storeVars, flowVars>>

\* the checkpointer saves the state with the input applied
graph_put_input(n) ==
    /\ pc[n] = "input"
    /\ store' = [store EXCEPT ![thread[n]] = msgs[n]]
    /\ pc' = [pc EXCEPT ![n] = "agent"]
    /\ UNCHANGED <<thread, msgs, conv, outcome, rounds, trimVars, storeVars, flowVars>>

\* agent_node up to model.invoke(conversation)
agent_node(n) ==
    /\ pc[n] = "agent"
    /\ conv' = [conv EXCEPT ![n] = conversation(msgs[n])]
    /\ pc' = [pc EXCEPT ![n] = "model"]
    /\ UNCHANGED <<store, thread, msgs, outcome, rounds, trimVars, storeVars, flowVars>>

\* faulty variant: the conversation's System message returned with the response
agent_update_with_system(n, calls) == <<SystemMessage, AIMessage(n, calls)>>

\* return {"messages": [response]}
agent_update(n, calls) == <<AIMessage(n, calls)>>

\* model.invoke returns; agent_node returns {"messages": [response]}, the
\* checkpointer saves the step and should_continue picks the next node
agent_respond(n, calls) ==
    /\ pc[n] = "model"
    /\ Len(calls) > 0 => rounds[n] < MaxRounds
    /\ LET new == add_messages(msgs[n], agent_update(n, calls)) IN
        /\ msgs' = [msgs EXCEPT ![n] = new]
        /\ store' = [store EXCEPT ![thread[n]] = new]
        /\ pc' = [pc EXCEPT ![n] = IF should_continue(new) = "tools" THEN "tools" ELSE "end"]
    /\ conv' = [conv EXCEPT ![n] = <<>>]
    /\ UNCHANGED <<thread, outcome, rounds, trimVars, storeVars, flowVars>>

\* the tools node runs every call of the last AI message; the checkpointer
\* saves the step; the edge tools -> agent follows
tools_step(n, st) ==
    /\ pc[n] = "tools"
    /\ LET new == add_messages(msgs[n], tool_node(n, Last(msgs[n]).calls, st)) IN
        /\ msgs' = [msgs EXCEPT ![n] = new]
        /\ store' = [store EXCEPT ![thread[n]] = new]
    /\ rounds' = [rounds EXCEPT ![n] = rounds[n] + 1]
    /\ pc' = [pc EXCEPT ![n] = "agent"]
    /\ UNCHANGED <<thread, conv, outcome, trimVars, storeVars, flowVars>>

\* ainvoke returns; the caller takes result["messages"][-1].content
graph_return(n) ==
    /\ pc[n] = "end"
    /\ outcome' = [outcome EXCEPT ![n] = "answer"]
    /\ pc' = [pc EXCEPT ![n] = "returned"]
    /\ msgs' = [msgs EXCEPT ![n] = <<>>]
    /\ UNCHANGED <<store, thread, conv, rounds, trimVars, storeVars, flowVars>>

\* asyncio.wait_for cancels the invocation at whatever await it is in
\* (asyncio.TimeoutError); the invocation's in-memory state is dropped
wait_for_timeout(n) ==
    /\ pc[n] \in {"load", "input", "agent", "model", "tools"}
    /\ outcome' = [outcome EXCEPT ![n] = "timeout"]
    /\ pc' = [pc EXCEPT ![n] = "returned"]
    /\ msgs' = [msgs EXCEPT ![n] = <<>>]
    /\ conv' = [conv EXCEPT ![n] = <<>>]
    /\ UNCHANGED <<store, thread, rounds, trimVars, storeVars, flowVars>>

\* what str(e) of an exception may contain, of the texts the handler looks for
Errors == SUBSET {"resource", "exhausted", "429", "quota"}

\* faulty variant: the exception is raised again to the caller
on_exception_reraise(err) == "raised"

\* except Exception as e: the rate-limit message if
\*   "resource" in err_str and "exhausted" in err_str or "429" in str(e) or "quota" in err_str
\* and the generic error message otherwise
on_exception(err) ==
    IF ("resource" \in err /\ "exhausted" \in err) \/ "429" \in err \/ "quota" \in err
    THEN "rate_limit"
    ELSE "error"

\* model.invoke raises an exception with text err: the except Exception branch
\* answers for it
model_raises(n, err) ==
    /\ pc[n] = "model"
    /\ outcome' = [outcome EXCEPT ![n] = on_exception(err)]
    /\ pc' = [pc EXCEPT ![n] = "returned"]
    /\ msgs' = [msgs EXCEPT ![n] = <<>>]
    /\ conv' = [conv EXCEPT ![n] = <<>>]
    /\ UNCHANGED <<store, thread, rounds, trimVars, storeVars, flowVars>>

Next ==
    \/ \E n \in Turns, c \in Callers : process_llm_request(n, c)
    \/ \E n \in Turns : run_daily_report_logic(n)
    \/ \E n \in Turns : graph_load(n)
    \/ \E n \in Turns : graph_put_input(n)
    \/ \E n \in Turns : agent_node(n)
    \/ \E n \in Turns : \E calls \in Responses(n, Len(msgs[n]) + 1) : agent_respond(n, calls)
    \/ \E n \in Turns : pc[n] = "tools" /\ \E st \in ToolStatuses(Last(msgs[n]).calls) : tools_step(n, st)
    \/ \E n \in Turns : graph_return(n)
    \/ \E n \in Turns : wait_for_timeout(n)
    \/ \E n \in Turns : \E err \in Errors : model_raises(n, err)

Spec == Init /\ [][Next]_vars

\* asyncio.wait_for arms one timer of LLM_TIMEOUT seconds per call, which the
\* event loop fires unless the call is done first, and a finished ainvoke
\* resumes its caller; the model call itself may never return
SpecLive ==
    /\ Init
    /\ [][Next]_vars
    /\ \A n \in Turns : WF_vars(wait_for_timeout(n)) /\ WF_vars(graph_return(n))

\* ------------------------------------------- trim_messages_for_context alone
Roles == {"S", "H", "A", "T"}

\* a history given by the roles of its messages; ids are the positions. An AI
\* message carries one tool call per ToolMessage that follows it directly, and
\* a ToolMessage the call id of its place behind the last message that is none
History(r) ==
    LET block(j) == CHOOSE a \in 0..(j - 1) :
                        /\ \A i \in (a + 1)..(j - 1) : r[i] = "T"
                        /\ a > 0 => r[a] # "T"
        results(j) == Cardinality({i \in (j + 1)..Len(r) : \A x \in (j + 1)..i : r[x] = "T"})
    IN [j \in 1..Len(r) |->
           [role |-> r[j], turn |-> 0, id |-> j,
            calls |-> IF r[j] = "A"
                      THEN [k \in 1..results(j) |-> [cid |-> <<block(j + k), k>>, name |-> "tool_read_file"]]
                      ELSE <<>>,
            call |-> IF r[j] = "T" THEN <<block(j), j - block(j)>> ELSE <<>>,
            status |-> IF r[j] = "T" THEN "success" ELSE "none",
            len |-> 1, guidance |-> ""]]

Histories == {History(r) : r \in UNION {[1..len -> Roles] : len \in 0..MaxLen}}

InitLoopOff ==
    /\ store = [t \in Threads |-> <<>>]
    /\ pc = [n \in Turns |-> "idle"]
    /\ thread = [n \in Turns |-> "none"]
    /\ msgs = [n \in Turns |-> <<>>]
    /\ conv = [n \in Turns |-> <<>>]
    /\ outcome = [n \in Turns |-> "none"]
    /\ rounds = [n \in Turns |-> 0]

InitTrim ==
    /\ tin \in Histories
    /\ tmax \in 1..MaxTurnsArg
    /\ tout = <<>>
    /\ tpc = "call"
    /\ InitLoopOff
    /\ InitStoreOff
    /\ InitFlowOff

\* one call trim_messages_for_context(tin, tmax)
trim_call ==
    /\ tpc = "call"
    /\ tout' = trim_messages_for_context(tin, tmax)
    /\ tpc' = "done"
    /\ UNCHANGED <<tin, tmax, loopVars, storeVars, flowVars>>

NextTrim == trim_call

SpecTrim == InitTrim /\ [][NextTrim]_vars

\* --------------------------------------------- agent_node's conversation alone
\* content sizes: a short text, and a whole ingestion chunk (or a file read back
\* by a tool) of INGESTION_CHUNK_SIZE characters
ContentLens == {1, INGESTION_CHUNK_SIZE}

\* the messages the current invocation t has in its state when agent_node runs:
\* its Human input, or the input with one tool round
OpenTurn(t) ==
    {<<[HumanMessage(t) EXCEPT !.len = h]>> : h \in ContentLens}
    \cup {<<[HumanMessage(t) EXCEPT !.len = h],
            AIMessage(t, <<[cid |-> <<t, 2, 1>>, name |-> "tool_read_file"]>>),
            [ToolMessage(t, <<t, 2, 1>>, "success") EXCEPT !.len = r]>> : h \in ContentLens, r \in ContentLens}

\* the messages an answered invocation t leaves in its thread
ClosedTurn(t) == {o \o <<AIMessage(t, <<>>)>> : o \in OpenTurn(t)}

\* the histories of k answered invocations
RECURSIVE ClosedTurns(_)
ClosedTurns(k) ==
    IF k = 0 THEN {<<>>}
    ELSE {p \o c : p \in ClosedTurns(k - 1), c \in ClosedTurn(k)}

\* state["messages"] at agent_node: answered invocations, then the current one
AgentStates ==
    UNION {{add_messages(<<>>, p \o o) : p \in ClosedTurns(k), o \in OpenTurn(k + 1)} :
                k \in 0..MaxConvTurns}

InitConv ==
    /\ tin \in AgentStates
    /\ tmax = DefaultMaxTurns
    /\ tout = <<>>
    /\ tpc = "call"
    /\ InitLoopOff
    /\ InitStoreOff
    /\ InitFlowOff

\* agent_node builds the conversation it gives to model.invoke
agent_conversation ==
    /\ tpc = "call"
    /\ tout' = conversation(tin)
    /\ tpc' = "done"
    /\ UNCHANGED <<tin, tmax, loopVars, storeVars, flowVars>>

NextConv == agent_conversation

SpecConv == InitConv /\ [][NextConv]_vars

\* ------------------------------------ checkpoint database: prune and clear
\* the date of the run, as the day number within May and June 2025
Today == 36

\* date.isoformat(): "2025-05-dd" for days 1..31, "2025-06-dd" after, as
\* character codes ('-' 45, '0' 48 .. '9' 57)
isoformat(o) ==
    LET month == IF o <= 31 THEN 5 ELSE 6
        day == IF o <= 31 THEN o ELSE o - 31
    IN <<50, 48, 50, 53, 45, 48, 48 + month, 45, 48 + (day \div 10), 48 + (day % 10)>>

\* cutoff = (datetime.now(BOT_TZ).date() - timedelta(days=DB_PRUNE_RETENTION_DAYS)).isoformat()
cutoff == isoformat(Today - DB_PRUNE_RETENTION_DAYS)

\* ephemeral_prefixes, as character codes ('_' 95, 'a' 97 .. 'z' 122):
\* "daily_report_", "debrief_", "recap_", "consolidate_", "calendar_task_"
ephemeral_prefixes ==
    << <<100, 97, 105, 108, 121, 95, 114, 101, 112, 111, 114, 116, 95>>,
       <<100, 101, 98, 114, 105, 101, 102, 95>>,
       <<114, 101, 99, 97, 112, 95>>,
       <<99, 111, 110, 115, 111, 108, 105, 100, 97, 116, 101, 95>>,
       <<99, 97, 108, 101, 110, 100, 97, 114, 95, 116, 97, 115, 107, 95>> >>

\* topics given to !consolidate: "g" and "1"
Topics == {<<103>>, <<49>>}

\* days between the date a thread id carries and the date of the run
Ages == {2, DB_PRUNE_RETENTION_DAYS, 10}

\* the thread ids the bot builds: prefix is the index of the ephemeral prefix
\* (0: a channel id), topic the !consolidate topic, date the day of creation
EphemeralIds ==
    {[prefix |-> p, topic |-> <<>>, date |-> Today - a] : p \in {1, 2, 3, 5}, a \in Ages}
    \cup {[prefix |-> 4, topic |-> tp, date |-> Today - a] : tp \in Topics, a \in Ages}

\* str(message.channel.id)
ChannelId == [prefix |-> 0, topic |-> <<>>, date |-> 0]

\* the text of a thread id: f"daily_report_{today}", f"debrief_{today}",
\* f"recap_{today}", f"consolidate_{topic}_{today}", f"calendar_task_{today}",
\* or the digits of the channel id
thread_text(id) ==
    IF id.prefix = 0 THEN <<49, 50>>
    ELSE ephemeral_prefixes[id.prefix]
         \o (IF id.prefix = 4 THEN id.topic \o <<95>> ELSE <<>>)
         \o isoformat(id.date)

\* SQLite text comparison a < b (BINARY collation)
RECURSIVE LexLess(_, _)
LexLess(a, b) ==
    IF Len(b) = 0 THEN FALSE
    ELSE IF Len(a) = 0 THEN TRUE
    ELSE IF a[1] # b[1] THEN a[1] < b[1]
    ELSE LexLess(Tail(a), Tail(b))

\* thread_id LIKE f"{prefix}%": '_' in the pattern stands for any character
like_prefix(text, prefix) ==
    /\ Len(text) >= Len(prefix)
    /\ \A k \in 1..Len(prefix) : IF prefix[k] = 95 THEN TRUE ELSE prefix[k] = text[k]

\* thread_id GLOB '[0-9]*'
glob_digit(text) == Len(text) > 0 /\ text[1] \in 48..57

\* DELETE FROM <table> WHERE thread_id LIKE ? AND thread_id < ?
\*   with (f"{prefix}%", f"{prefix}{cutoff}"): the rows that remain
delete_ephemeral(rows, prefix) ==
    {r \in rows : ~(/\ like_prefix(thread_text(r.thread_id), prefix)
                    /\ LexLess(thread_text(r.thread_id), prefix \o cutoff))}

\* SELECT DISTINCT thread_id FROM checkpoints WHERE thread_id GLOB '[0-9]*'
persistent_threads(checkpoints) ==
    {r.thread_id : r \in {x \in checkpoints : glob_digit(thread_text(x.thread_id))}}

\* faulty variant: OFFSET DB_PRUNE_MAX_CHECKPOINTS
cutoff_offset_cap(max_checkpoints) == max_checkpoints

\* OFFSET ? with DB_PRUNE_MAX_CHECKPOINTS - 1
cutoff_offset(max_checkpoints) == max_checkpoints - 1

\* SELECT checkpoint_id FROM checkpoints WHERE thread_id = ?
\*   ORDER BY checkpoint_id DESC LIMIT 1 OFFSET ?; 0 when there is no such row
cutoff_id(checkpoints, tid) ==
    LET ids == {r.checkpoint_id : r \in {x \in checkpoints : x.thread_id = tid}}
        hit == {x \in ids :
                  Cardinality({y \in ids : y > x}) = cutoff_offset(DB_PRUNE_MAX_CHECKPOINTS)}
    IN IF hit = {} THEN 0 ELSE CHOOSE x \in hit : TRUE

\* faulty variant: the rows above the cutoff id are deleted
delete_newer(rows, checkpoints) ==
    {r \in rows : ~(/\ r.thread_id \in persistent_threads(checkpoints)
                    /\ cutoff_id(checkpoints, r.thread_id) > 0
                    /\ r.checkpoint_id > cutoff_id(checkpoints, r.thread_id))}

\* for tid in persistent_threads: if row:
\*   DELETE FROM <table> WHERE thread_id = ? AND checkpoint_id < ?: the rows that remain
delete_older(rows, checkpoints) ==
    {r \in rows : ~(/\ r.thread_id \in persistent_threads(checkpoints)
                    /\ r.checkpoint_id < cutoff_id(checkpoints, r.thread_id))}

\* files of data/
FileNames == {"garlic.md", "tasks.md", "conversations.db"}

SYSTEM_FILES == {"tasks.md"}

\* _list_md_paths: the *.md files of data/ that are not system files
list_md_paths(fs) == {f \in fs : f \in {"garlic.md", "basil.md", "tasks.md"} /\ f \notin SYSTEM_FILES}

\* os.path.basename of the file names a caller passes
basename(filename) ==
    CASE filename = "data/tasks.md" -> "tasks.md"
      [] filename = "../data/tasks.md" -> "tasks.md"
      [] OTHER -> filename

\* faulty variant: the file is removed whatever its name
delete_any_file(fs, filename) == fs \ {basename(filename)}

\* delete_knowledge_file(filename): the files that remain
delete_knowledge_file(fs, filename) ==
    IF basename(filename) \in SYSTEM_FILES THEN fs
    ELSE IF basename(filename) \notin fs THEN fs
    ELSE fs \ {basename(filename)}

\* faulty variant: every file of data/ is removed
clear_all_files(fs) == {}

\* clear_all_knowledge_files: the files that remain
clear_all_knowledge_files(fs) == fs \ list_md_paths(fs)

\* clear_entire_garden: everything in data/ is removed
clear_entire_garden(fs) == {}

\* the rows persisted once data/ holds the files fs: none without DB_PATH
persisted(fs, rows) == IF "conversations.db" \in fs THEN rows ELSE EmptyTables

\* the database file exists
StoreOpen == "conversations.db" \in files

\* c checkpoints of thread id, each with a pending write
Rows(id, c) == {[thread_id |-> id, checkpoint_id |-> j] : j \in 1..c}

\* checkpoints of the channel thread when the behaviour starts
RevCounts == {0} \cup ((DB_PRUNE_MAX_CHECKPOINTS - 1)..MaxRevs)

Tables(eph, c) ==
    [checkpoints |-> UNION {Rows(e, 2) : e \in eph} \cup Rows(ChannelId, c),
     writes |-> UNION {Rows(e, 2) : e \in eph} \cup Rows(ChannelId, c)]

InitStore ==
    /\ files = FileNames
    /\ db \in {Tables(eph, c) : eph \in {{}} \cup {{e} : e \in EphemeralIds}, c \in RevCounts}
    /\ ptx = EmptyTables
    /\ ppc = [phase |-> "idle", k |-> 0]
    /\ running = 0
    /\ clr = [kind |-> "none", step |-> 0]
    /\ InitLoopOff
    /\ InitTrimOff
    /\ InitFlowOff

\* faulty variant: the loop starts an iteration whatever the previous one does
loop_ready_always(r) == TRUE

\* tasks.loop awaits one iteration of db_prune before it schedules the next,
\* and setup_hook starts the loop once
loop_ready(r) == r = 0

\* the loop body starts: _run_db_prune up to aiosqlite.connect(DB_PATH)
db_prune ==
    /\ ppc.phase # "off"
    /\ loop_ready(running)
    /\ running' = running + 1
    /\ ppc' = [phase |-> "ephemeral", k |-> 1]
    /\ ptx' = EmptyTables
    /\ UNCHANGED <<files, db, clr, loopVars, trimVars, flowVars>>

\* faulty variant: every statement is committed on its own
after_statement_autocommit(committed, pending) == pending

\* a statement of the open transaction changes no committed row
after_statement(committed, pending) == committed

\* statement k of the loop over ephemeral_prefixes: the DELETE on writes (odd k)
\* or on checkpoints (even k) of prefix (k + 1) \div 2; the first statement
\* opens the transaction
prune_ephemeral ==
    /\ ppc.phase = "ephemeral"
    /\ StoreOpen
    /\ LET base == IF ppc.k = 1 THEN db ELSE ptx
           prefix == ephemeral_prefixes[(ppc.k + 1) \div 2]
           table == IF ppc.k % 2 = 1 THEN "writes" ELSE "checkpoints"
           new == [base EXCEPT ![table] = delete_ephemeral(base[table], prefix)]
       IN /\ ptx' = new
          /\ db' = after_statement(db, new)
    /\ ppc' = IF ppc.k < 2 * Len(ephemeral_prefixes)
              THEN [ppc EXCEPT !.k = ppc.k + 1]
              ELSE [phase |-> "persistent", k |-> 1]
    /\ UNCHANGED <<files, running, clr, loopVars, trimVars, flowVars>>

\* the loop over persistent_threads: the DELETE on writes (k = 1), then the
\* DELETE on checkpoints (k = 2), below the cutoff id of each thread
prune_persistent ==
    /\ ppc.phase = "persistent"
    /\ StoreOpen
    /\ LET table == IF ppc.k = 1 THEN "writes" ELSE "checkpoints"
           new == [ptx EXCEPT ![table] = delete_older(ptx[table], ptx.checkpoints)]
       IN /\ ptx' = new
          /\ db' = after_statement(db, new)
    /\ ppc' = IF ppc.k = 1 THEN [ppc EXCEPT !.k = 2] ELSE [phase |-> "commit", k |-> 0]
    /\ UNCHANGED <<files, running, clr, loopVars, trimVars, flowVars>>

\* await conn.commit()
prune_commit ==
    /\ ppc.phase = "commit"
    /\ StoreOpen
    /\ db' = ptx
    /\ ppc' = [phase |-> "vacuum", k |-> 0]
    /\ UNCHANGED <<files, ptx, running, clr, loopVars, trimVars, flowVars>>

\* VACUUM, logger.info, and the run returns
prune_vacuum ==
    /\ ppc.phase = "vacuum"
    /\ ppc' = [phase |-> "idle", k |-> 0]
    /\ ptx' = EmptyTables
    /\ running' = running - 1
    /\ UNCHANGED <<files, db, clr, loopVars, trimVars, flowVars>>

\* a statement raises (locked or missing database, I/O error): the connection
\* is closed without commit, which rolls the transaction back; the except
\* branch logs and the run returns
prune_fails ==
    /\ ppc.phase \in {"ephemeral", "persistent", "commit", "vacuum"}
    /\ ppc' = [phase |-> "idle", k |-> 0]
    /\ ptx' = EmptyTables
    /\ running' = running - 1
    /\ UNCHANGED <<files, db, clr, loopVars, trimVars, flowVars>>

\* the transaction of _run_db_prune holds the database's write lock
WriteLocked ==
    IF ppc.phase = "ephemeral" THEN ppc.k > 1 ELSE ppc.phase \in {"persistent", "commit"}

\* checkpoint ids of the channel thread in the committed tables
ChannelRevs == {r.checkpoint_id : r \in {x \in db.checkpoints : x.thread_id = ChannelId}}

\* an agent turn on the channel thread saves a checkpoint and its writes; the
\* checkpointer's ids increase
checkpoint_put ==
    /\ ppc.phase # "off"
    /\ StoreOpen
    /\ ~WriteLocked
    /\ \A c \in ChannelRevs : c < MaxRevs
    /\ LET next == IF ChannelRevs = {} THEN 1
                   ELSE 1 + CHOOSE c \in ChannelRevs : \A d \in ChannelRevs : d <= c
           row == [thread_id |-> ChannelId, checkpoint_id |-> next]
       IN db' = [checkpoints |-> db.checkpoints \cup {row}, writes |-> db.writes \cup {row}]
    /\ UNCHANGED <<files, ptx, ppc, running, clr, loopVars, trimVars, flowVars>>

ClearKinds == {"topic", "knowledge", "garden"}

\* confirmations a !clear command asks for
ClearSteps(kind) == IF kind = "topic" THEN 2 ELSE 3

\* !clear <topic> | knowledge | garden: the first ConfirmView is sent
clear_command(kind) ==
    /\ ppc.phase # "off"
    /\ clr.kind = "none"
    /\ kind = "topic" => "garlic.md" \in files
    /\ clr' = [kind |-> kind, step |-> 1]
    /\ UNCHANGED <<files, db, ptx, ppc, running, loopVars, trimVars, flowVars>>

\* final_confirm of the three flows: the files that remain
final_confirm(kind, filename, fs) ==
    CASE kind = "topic" -> delete_knowledge_file(fs, filename)
      [] kind = "knowledge" -> clear_all_knowledge_files(fs)
      [] kind = "garden" -> clear_entire_garden(fs)

\* ConfirmView._confirm: the next view, or final_confirm at the last step
clear_confirm ==
    /\ clr.kind # "none"
    /\ IF clr.step < ClearSteps(clr.kind)
       THEN /\ clr' = [clr EXCEPT !.step = clr.step + 1]
            /\ UNCHANGED <<files, db>>
       ELSE /\ clr' = [kind |-> "none", step |-> 0]
            /\ files' = final_confirm(clr.kind, "garlic.md", files)
            /\ db' = persisted(final_confirm(clr.kind, "garlic.md", files), db)
    /\ UNCHANGED <<ptx, ppc, running, loopVars, trimVars, flowVars>>

\* ConfirmView._cancel or ConfirmView.on_timeout
clear_cancel ==
    /\ clr.kind # "none"
    /\ clr' = [kind |-> "none", step |-> 0]
    /\ UNCHANGED <<files, db, ptx, ppc, running, loopVars, trimVars, flowVars>>

\* the agent calls tool_delete_file(filename)
tool_delete_file(filename) ==
    /\ ppc.phase # "off"
    /\ files' = delete_knowledge_file(files, filename)
    /\ db' = persisted(delete_knowledge_file(files, filename), db)
    /\ UNCHANGED <<ptx, ppc, running, clr, loopVars, trimVars, flowVars>>

NextStore ==
    \/ db_prune
    \/ prune_ephemeral
    \/ prune_persistent
    \/ prune_commit
    \/ prune_vacuum
    \/ prune_fails
    \/ checkpoint_put
    \/ \E kind \in ClearKinds : clear_command(kind)
    \/ clear_confirm
    \/ clear_cancel
    \/ \E filename \in FileNames : tool_delete_file(filename)

SpecStore == InitStore /\ [][NextStore]_vars

\* ------------------------------------------- the except branches alone
\* SpecErr runs the except branches of process_llm_request and of
\* run_daily_report_logic on two exceptions: tin holds the path, the channel
\* and the exceptions, tout what was delivered for each of them: which message,
\* and the exception text put into it.

\* words an exception text is made of; str(e) keeps their case
Words == {"Resource", "exhausted", "429", "Quota", "secret"}

\* faulty variant: the text is inspected as it is
str_keep(w) == w

\* str.lower() of one word
str_lower(w) ==
    CASE w = "Resource" -> "resource"
      [] w = "Quota" -> "quota"
      [] OTHER -> w

\* err_str = str(e).lower()
err_str(text) == {str_lower(w) : w \in text}

\* process_llm_request: except asyncio.TimeoutError / except Exception as e;
\* "429" is looked up in str(e), the other markers in err_str
process_llm_request_except(e) ==
    IF e.timeout
    THEN [msg |-> "timeout", detail |-> {}]
    ELSE [msg |-> on_exception(err_str(e.text) \cup (e.text \cap {"429"})), detail |-> {}]

\* run_daily_report_logic: the same branches, each sending to the channel if
\* there is one; the last branch sends f"Error generating briefing: {e}"
run_daily_report_except(e, channel) ==
    IF ~channel
    THEN [msg |-> "none", detail |-> {}]
    ELSE IF e.timeout
    THEN [msg |-> "timeout", detail |-> {}]
    ELSE IF on_exception(err_str(e.text) \cup (e.text \cap {"429"})) = "rate_limit"
    THEN [msg |-> "rate_limit", detail |-> {}]
    ELSE [msg |-> "error", detail |-> e.text]

\* the awaited graph invocation ends with asyncio.TimeoutError of wait_for, or
\* with any other exception and its text
InitErr ==
    /\ tin \in [path : {"process_llm_request", "run_daily_report_logic"},
                channel : BOOLEAN,
                e1 : [timeout : BOOLEAN, text : SUBSET Words],
                e2 : [timeout : BOOLEAN, text : SUBSET Words]]
    /\ tmax = 1
    /\ tout = <<>>
    /\ tpc = "call"
    /\ InitLoopOff
    /\ InitStoreOff
    /\ InitFlowOff

process_llm_request_raises ==
    /\ tpc = "call"
    /\ tin.path = "process_llm_request"
    /\ tout' = <<process_llm_request_except(tin.e1), process_llm_request_except(tin.e2)>>
    /\ tpc' = "done"
    /\ UNCHANGED <<tin, tmax, loopVars, storeVars, flowVars>>

run_daily_report_raises ==
    /\ tpc = "call"
    /\ tin.path = "run_daily_report_logic"
    /\ tout' = <<run_daily_report_except(tin.e1, tin.channel),
                 run_daily_report_except(tin.e2, tin.channel)>>
    /\ tpc' = "done"
    /\ UNCHANGED <<tin, tmax, loopVars, storeVars, flowVars>>

NextErr ==
    \/ process_llm_request_raises
    \/ run_daily_report_raises

SpecErr == InitErr /\ [][NextErr]_vars

\* ------------------------------------------------- the tools' outcomes alone
\* SpecTools calls one tool in one state of data/: tin holds the tool and the
\* state, tout "text" when the call returns a string and "raises" when an
\* exception leaves the tool function.

\* graph.py TOOLS, by name
ToolFunctions ==
    {"tool_list_files", "tool_read_file", "tool_update_journal", "tool_amend_knowledge",
     "tool_add_task", "tool_log_harvest", "tool_overwrite_file", "tool_generate_calendar",
     "tool_get_date", "tool_find_related_files", "tool_complete_task",
     "tool_search_file_contents", "tool_read_multiple_files", "tool_backup_file",
     "tool_delete_file"}

\* states of data/ a call can meet. file: the file the call is about is absent,
\* usable, or present without the permission; backups: data/backups is not
\* there, a directory, or a regular file of that name; dir_writable: entries
\* can be created in data/
Environments ==
    [file : {"missing", "ok", "unreadable", "unwritable"},
     backups : {"absent", "dir", "file"},
     dir_writable : BOOLEAN]

\* the operating-system call raises OSError in env
os_raises(op, env) ==
    CASE op = "exists" -> FALSE
      [] op = "glob" -> FALSE
      [] op = "read" -> env.file \in {"missing", "unreadable"}
      [] op = "write" -> env.file = "unwritable" \/ (env.file = "missing" /\ ~env.dir_writable)
      [] op = "remove" -> env.file = "missing" \/ ~env.dir_writable
      [] op = "makedirs" -> env.backups = "file" \/ (env.backups = "absent" /\ ~env.dir_writable)
      [] op = "copy" -> env.file \in {"missing", "unreadable"} \/ env.backups # "dir"

\* the file accesses of the function behind each tool, in the order of the
\* code: in_try says whether the statement is inside a try whose except returns
\* the error text; "exists" stands for `if not os.path.exists(path): return ...`
tool_body(tool) ==
    LET stmt(op, in_try) == [op |-> op, in_try |-> in_try]
    IN CASE tool = "tool_list_files" -> <<stmt("glob", FALSE)>>
         [] tool = "tool_read_file" -> <<stmt("exists", FALSE), stmt("read", TRUE)>>
         [] tool = "tool_update_journal" -> <<stmt("write", TRUE)>>
         [] tool = "tool_amend_knowledge" -> <<stmt("read", TRUE), stmt("write", TRUE)>>
         [] tool = "tool_add_task" -> <<stmt("read", TRUE), stmt("write", TRUE)>>
         [] tool = "tool_log_harvest" -> <<stmt("write", TRUE)>>
         [] tool = "tool_overwrite_file" -> <<stmt("write", TRUE)>>
         [] tool = "tool_generate_calendar" ->
                <<stmt("glob", FALSE), stmt("read", TRUE), stmt("write", TRUE)>>
         [] tool = "tool_get_date" -> <<>>
         [] tool = "tool_find_related_files" -> <<stmt("glob", FALSE)>>
         [] tool = "tool_complete_task" ->
                <<stmt("exists", FALSE), stmt("read", TRUE), stmt("write", TRUE)>>
         [] tool = "tool_search_file_contents" -> <<stmt("glob", FALSE), stmt("read", TRUE)>>
         [] tool = "tool_read_multiple_files" -> <<stmt("exists", FALSE), stmt("read", TRUE)>>
         [] tool = "tool_backup_file" ->
                <<stmt("exists", FALSE), stmt("makedirs", FALSE), stmt("copy", TRUE)>>
         [] tool = "tool_delete_file" -> <<stmt("exists", FALSE), stmt("remove", TRUE)>>

\* running the statements from the i-th on: an exception outside try leaves the
\* function, one inside try is returned as text, a missing file returns text
\* at the exists check
RECURSIVE tool_returns(_, _, _)
tool_returns(body, i, env) ==
    IF i > Len(body) THEN "text"
    ELSE IF body[i].op = "exists" /\ env.file = "missing" THEN "text"
    ELSE IF os_raises(body[i].op, env) THEN (IF body[i].in_try THEN "text" ELSE "raises")
    ELSE tool_returns(body, i + 1, env)

InitTools ==
    /\ tin \in [tool : ToolFunctions, env : Environments]
    /\ tmax = 1
    /\ tout = <<>>
    /\ tpc = "call"
    /\ InitLoopOff
    /\ InitStoreOff
    /\ InitFlowOff

\* the tools node runs the requested tool
tool_invoke ==
    /\ tpc = "call"
    /\ tout' = tool_returns(tool_body(tin.tool), 1, tin.env)
    /\ tpc' = "done"
    /\ UNCHANGED <<tin, tmax, loopVars, storeVars, flowVars>>

NextTools == tool_invoke

SpecTools == InitTools /\ [][NextTools]_vars

\* --------------------------------- !clear flows, file tools, weather alerts
\* SpecGarden: the three !clear flows with the users who click, the agent's
\* tool_delete_file and the weather_alerts loop, all on the files of data/.

\* alerts one day of the model counts
MaxAlerts == 2

Users == {"alice", "bob"}

\* topic.lower()
topic_lower(topic) ==
    CASE topic = "Knowledge" -> "knowledge"
      [] topic = "Garlic" -> "garlic"
      [] topic = "Tasks" -> "tasks"
      [] OTHER -> topic

\* data/ with or without yesterday's alert flag, and no ConfirmView
InitGarden ==
    /\ files \in {{"garlic.md", "tasks.md", "conversations.db"},
                  {"garlic.md", "tasks.md", "conversations.db", ".alert_flag"}}
    /\ db = EmptyTables
    /\ ptx = EmptyTables
    /\ ppc = [phase |-> "idle", k |-> 0]
    /\ running = 0
    /\ clr = [kind |-> "none", step |-> 0, author |-> "none", file |-> "none",
              state |-> "closed", pressed |-> <<>>]
    /\ view = [phase |-> "off"]
    /\ tasks_md = <<>>
    /\ alerts = [sent |-> 0, flag |-> "yesterday"]
    /\ InitLoopOff
    /\ InitTrimOff

\* !clear <topic> by a user: the routing of clear(), then _clear_topic (with
\* filename = f"{_sanitize_topic(topic)}.md"), _clear_knowledge or _clear_garden
\* up to the first ConfirmView; no view when the file is protected or missing,
\* or when there is no knowledge file
clear(author, topic) ==
    /\ clr.state # "open"
    /\ LET kind == IF topic_lower(topic) = "garden" THEN "garden"
                   ELSE IF topic_lower(topic) = "knowledge" THEN "knowledge"
                   ELSE "topic"
           filename == CASE kind # "topic" -> "none"
                         [] topic_lower(topic) = "garlic" -> "garlic.md"
                         [] topic_lower(topic) = "tasks" -> "tasks.md"
                         [] topic_lower(topic) = "basil" -> "basil.md"
           refused == IF kind = "topic"
                      THEN filename \in SYSTEM_FILES \/ filename \notin files
                      ELSE kind = "knowledge" /\ list_md_paths(files) = {}
       IN clr' = IF refused THEN clr
                 ELSE [kind |-> kind, step |-> 1, author |-> author, file |-> filename,
                       state |-> "open", pressed |-> <<>>]
    /\ UNCHANGED <<files, db, ptx, ppc, running, view, tasks_md, alerts, loopVars, trimVars>>

\* faulty variant: every user's click is let through
interaction_check_any(user, author_id) == TRUE

\* ConfirmView.interaction_check
interaction_check(user, author_id) == user = author_id

\* a click on the confirm button: ConfirmView._confirm runs the next step's
\* callback, final_confirm at the last step
ConfirmView_confirm(user) ==
    /\ clr.state = "open"
    /\ IF ~interaction_check(user, clr.author)
       THEN UNCHANGED <<clr, files, db>>
       ELSE IF clr.step < ClearSteps(clr.kind)
       THEN /\ clr' = [clr EXCEPT !.step = clr.step + 1, !.pressed = Append(clr.pressed, user)]
            /\ UNCHANGED <<files, db>>
       ELSE /\ clr' = [clr EXCEPT !.state = "done", !.pressed = Append(clr.pressed, user)]
            /\ files' = final_confirm(clr.kind, clr.file, files)
            /\ db' = persisted(final_confirm(clr.kind, clr.file, files), db)
    /\ UNCHANGED <<ptx, ppc, running, view, tasks_md, alerts, loopVars, trimVars>>

\* a click on Cancel: ConfirmView._cancel
ConfirmView_cancel(user) ==
    /\ clr.state = "open"
    /\ clr' = IF interaction_check(user, clr.author)
              THEN [clr EXCEPT !.state = "cancelled"]
              ELSE clr
    /\ UNCHANGED <<files, db, ptx, ppc, running, view, tasks_md, alerts, loopVars, trimVars>>

\* ConfirmView.on_timeout
ConfirmView_on_timeout ==
    /\ clr.state = "open"
    /\ clr' = [clr EXCEPT !.state = "timed_out"]
    /\ UNCHANGED <<files, db, ptx, ppc, running, view, tasks_md, alerts, loopVars, trimVars>>

\* one iteration of weather_alerts: nothing without frost_risk or rain_alert,
\* nothing when the flag holds today's date; otherwise the alert is sent and the
\* flag written, a failed write being logged only
weather_alerts(alert, written) ==
    /\ alerts.sent < MaxAlerts
    /\ IF ~alert THEN UNCHANGED <<files, alerts>>
       ELSE IF ".alert_flag" \in files /\ alerts.flag = "today" THEN UNCHANGED <<files, alerts>>
       ELSE IF written
       THEN /\ alerts' = [sent |-> alerts.sent + 1, flag |-> "today"]
            /\ files' = files \cup {".alert_flag"}
       ELSE /\ alerts' = [alerts EXCEPT !.sent = alerts.sent + 1]
            /\ UNCHANGED files
    /\ UNCHANGED <<db, ptx, ppc, running, clr, view, tasks_md, loopVars, trimVars>>

NextGarden ==
    \/ \E author \in Users, topic \in {"garden", "Knowledge", "Garlic", "Tasks", "basil"} :
          clear(author, topic)
    \/ \E user \in Users : ConfirmView_confirm(user)
    \/ \E user \in Users : ConfirmView_cancel(user)
    \/ ConfirmView_on_timeout
    \/ \E filename \in {"garlic.md", "tasks.md", "data/tasks.md", "../data/tasks.md",
                         "conversations.db", ".alert_flag"} : tool_delete_file(filename)
    \/ \E alert \in BOOLEAN, written \in BOOLEAN : weather_alerts(alert, written)

SpecGarden == InitGarden /\ [][NextGarden]_vars

\* ------------------------------------------------------ task consolidation
\* SpecTasks: !consolidate tasks from the answer of the duplicate analysis
\* to the rewrite of tasks.md. Tasks are named by their index in the
\* snapshot all_tasks (0-based, as in the code).

\* open tasks in the snapshot
MaxTasks == 3
\* groups in the model's answer
MaxGroups == 2
\* indices in one group of the answer
MaxGroupLen == 2

\* the list parsed from the model's answer: groups with their indices (those
\* of the open tasks and one out of bounds on either side) and whether
\* suggested_merge has text
RawResults ==
    LET IndexLists == UNION {[1..k -> (-1)..MaxTasks] : k \in 1..MaxGroupLen}
        RawGroups == [indices : IndexLists, suggested : BOOLEAN]
    IN UNION {[1..k -> RawGroups] : k \in 1..MaxGroups}

Range(s) == {s[i] : i \in DOMAIN s}

\* faulty variant: the validation loop without seen_indices
RECURSIVE validate_bounds(_, _, _, _)
validate_bounds(result, i, seen_indices, max_idx) ==
    IF i > Len(result) THEN <<>>
    ELSE IF /\ Len(result[i].indices) >= 2
            /\ \A j \in DOMAIN result[i].indices :
                  result[i].indices[j] >= 0 /\ result[i].indices[j] <= max_idx
         THEN <<result[i]>> \o validate_bounds(result, i + 1, seen_indices, max_idx)
         ELSE validate_bounds(result, i + 1, seen_indices, max_idx)

\* analyze_duplicate_tasks, the validation loop: a group is dropped when it
\* has fewer than 2 indices, an index out of bounds, or an index an earlier
\* validated group holds; seen_indices is updated after the group's own check
RECURSIVE validate(_, _, _, _)
validate(result, i, seen_indices, max_idx) ==
    IF i > Len(result) THEN <<>>
    ELSE LET indices == result[i].indices
             valid == /\ Len(indices) >= 2
                      /\ \A j \in DOMAIN indices :
                            /\ indices[j] >= 0
                            /\ indices[j] <= max_idx
                            /\ indices[j] \notin seen_indices
         IN IF valid
            THEN <<result[i]>> \o validate(result, i + 1, seen_indices \cup Range(indices), max_idx)
            ELSE validate(result, i + 1, seen_indices, max_idx)

analyze_duplicate_tasks(result, open_tasks) == validate(result, 1, {}, Len(open_tasks) - 1)

\* get_open_tasks(): the open lines of tasks.md, here the task numbers
OpenTasks == [i \in 1..MaxTasks |-> i - 1]

\* sorted(group_indices)[1:], as a set
sorted_tail(indices) ==
    LET lowest == CHOOSE x \in Range(indices) : \A y \in Range(indices) : x <= y
    IN IF Cardinality({j \in DOMAIN indices : indices[j] = lowest}) > 1
       THEN Range(indices)
       ELSE Range(indices) \ {lowest}

\* the loop of _apply_decisions over self.decisions: indices_to_remove
RECURSIVE indices_to_remove(_, _, _)
indices_to_remove(groups, decisions, k) ==
    IF k = 0 THEN {}
    ELSE LET before == indices_to_remove(groups, decisions, k - 1)
             group_indices == groups[k].indices
         IN CASE decisions[k] = "keep" -> before
              [] decisions[k] = "merge" ->
                    IF groups[k].suggested
                    THEN before \cup Range(group_indices)
                    ELSE (before \cup Range(group_indices)) \ {group_indices[1]}
              [] decisions[k] = "remove_dups" -> before \cup sorted_tail(group_indices)

\* _apply_decisions: tasks.md rewritten from the snapshot; new_merged_lines
\* come from the groups merged with a suggested_merge
apply_decisions(groups, decisions, all_tasks, completed_tasks) ==
    [open |-> SelectSeq(all_tasks,
                        LAMBDA t : t \notin indices_to_remove(groups, decisions, Len(decisions))),
     merged |-> SelectSeq([k \in 1..Len(decisions) |-> k],
                          LAMBDA k : decisions[k] = "merge" /\ groups[k].suggested),
     completed |-> completed_tasks]

\* !consolidate tasks was sent and the model's answer, tin, has been parsed
InitTasks ==
    /\ view = [phase |-> "analyzing", groups |-> <<>>, current_group |-> 0, decisions |-> <<>>,
               author_id |-> "alice"]
    /\ tasks_md = [open |-> OpenTasks, merged |-> <<>>, completed |-> 1]
    /\ alerts = [sent |-> 0, flag |-> ""]
    /\ tin \in RawResults
    /\ tmax = 1
    /\ tout = <<>>
    /\ tpc = "off"
    /\ InitLoopOff
    /\ InitStoreOff

\* consolidate_tasks: the answer is validated; the view opens on the groups
\* that are left, if any
consolidate_tasks ==
    /\ view.phase = "analyzing"
    /\ LET groups == analyze_duplicate_tasks(tin, OpenTasks)
       IN view' = [view EXCEPT !.groups = groups,
                               !.phase = IF groups = <<>> THEN "all_clear" ELSE "open"]
    /\ UNCHANGED <<tasks_md, alerts, loopVars, trimVars, storeVars>>

\* faulty variant: the decisions are applied after every click
all_decided_eager(current_group, groups) == TRUE

\* _advance: the changes are applied unless current_group < len(self.groups)
all_decided(current_group, groups) == ~(current_group < Len(groups))

\* a click on Merge, Keep All or Remove Duplicates: _advance(decision)
TaskConsolidateView_advance(user, decision) ==
    /\ view.phase = "open"
    /\ IF ~interaction_check(user, view.author_id)
       THEN UNCHANGED <<view, tasks_md>>
       ELSE LET decisions == Append(view.decisions, decision)
                current_group == view.current_group + 1
            IN IF all_decided(current_group, view.groups)
               THEN /\ view' = [view EXCEPT !.decisions = decisions,
                                            !.current_group = current_group,
                                            !.phase = "applied"]
                    /\ tasks_md' = apply_decisions(view.groups, decisions,
                                                   OpenTasks, tasks_md.completed)
               ELSE /\ view' = [view EXCEPT !.decisions = decisions,
                                            !.current_group = current_group]
                    /\ UNCHANGED tasks_md
    /\ UNCHANGED <<alerts, loopVars, trimVars, storeVars>>

\* TaskConsolidateView.on_timeout
TaskConsolidateView_on_timeout ==
    /\ view.phase = "open"
    /\ view' = [view EXCEPT !.phase = "timed_out"]
    /\ UNCHANGED <<tasks_md, alerts, loopVars, trimVars, storeVars>>

NextTasks ==
    \/ consolidate_tasks
    \/ \E user \in Users, decision \in {"merge", "keep", "remove_dups"} :
          TaskConsolidateView_advance(user, decision)
    \/ TaskConsolidateView_on_timeout

SpecTasks == InitTasks /\ [][NextTasks]_vars

\* ------------------------------------------------- _chunk_text (bot.py)
\* SpecChunk: one call of _chunk_text(text, max_size), one step per iteration
\* of its while loop. tin is the argument text, tmax is max_size, tout holds
\* the loop's text and chunks.

\* longest text of the model
MaxText == 5

\* largest max_size of the model
MaxSize == 4

\* iterations after which the model stops following a loop that goes on
MaxChunks == 6

\* str.rfind(sub, 0, end): the highest index where sub starts and ends within
\* text[0:end], -1 when there is none
rfind(text, sub, end) ==
    LET found == {i \in 0..(end - Len(sub)) :
                     /\ i + Len(sub) <= Len(text)
                     /\ SubSeq(text, i + 1, i + Len(sub)) = sub}
    IN IF found = {} THEN -1 ELSE CHOOSE i \in found : \A j \in found : j <= i

\* faulty variant: str.lstrip(), which strips blanks as well
lstrip_whitespace(text) ==
    LET kept == {i \in 1..Len(text) : text[i] \notin {"\n", " "}}
    IN IF kept = {} THEN <<>>
       ELSE SubSeq(text, CHOOSE i \in kept : \A j \in kept : i <= j, Len(text))

\* str.lstrip('\n')
lstrip(text) ==
    LET kept == {i \in 1..Len(text) : text[i] # "\n"}
    IN IF kept = {} THEN <<>>
       ELSE SubSeq(text, CHOOSE i \in kept : \A j \in kept : i <= j, Len(text))

\* the split point of one iteration: paragraph break, line break, blank, then
\* a hard cut, each taken only when it lies in the second half of the chunk
split_at(text, max_size) ==
    LET s1 == rfind(text, <<"\n", "\n">>, max_size)
        s2 == IF s1 < max_size \div 2 THEN rfind(text, <<"\n">>, max_size) ELSE s1
        s3 == IF s2 < max_size \div 2 THEN rfind(text, <<" ">>, max_size) ELSE s2
    IN IF s3 < max_size \div 2 THEN max_size ELSE s3

InitChunk ==
    /\ tin \in UNION {[1..n -> {"a", " ", "\n"}] : n \in 0..MaxText}
    /\ tmax \in 1..MaxSize
    /\ tout = [text |-> <<>>, chunks |-> <<>>]
    /\ tpc = "call"
    /\ InitLoopOff
    /\ InitStoreOff
    /\ InitFlowOff

\* entry: a text that fits is returned as the only chunk
chunk_text ==
    /\ tpc = "call"
    /\ IF Len(tin) <= tmax
       THEN tout' = [text |-> tin, chunks |-> <<tin>>] /\ tpc' = "done"
       ELSE tout' = [text |-> tin, chunks |-> <<>>] /\ tpc' = "while"
    /\ UNCHANGED <<tin, tmax, loopVars, storeVars, flowVars>>

\* one iteration of while text
chunk_text_while ==
    /\ tpc = "while"
    /\ Len(tout.chunks) < MaxChunks
    /\ IF tout.text = <<>>
       THEN tpc' = "done" /\ UNCHANGED tout
       ELSE IF Len(tout.text) <= tmax
       THEN tout' = [text |-> tout.text, chunks |-> Append(tout.chunks, tout.text)] /\ tpc' = "done"
       ELSE LET at == split_at(tout.text, tmax)
            IN /\ tout' = [text |-> lstrip(SubSeq(tout.text, at + 1, Len(tout.text))),
                           chunks |-> Append(tout.chunks, SubSeq(tout.text, 1, at))]
               /\ tpc' = "while"
    /\ UNCHANGED <<tin, tmax, loopVars, storeVars, flowVars>>

NextChunk == chunk_text \/ chunk_text_while

SpecChunk == InitChunk /\ [][NextChunk]_vars

\* --------------------------------- tasks.md: add_task and complete_task
\* SpecRecur: the task tools on tasks.md. tasks_md is the sequence of task
\* lines of the file, tin.today is date.today(), tout is what the last call
\* returned and tpc counts the calls. A task line is the record of the fields
\* add_task formats into it; a description is its sequence of words.

\* calls of the task tools one behaviour follows
MaxOps == 2

\* task lines the file starts with at most
MaxInitLines == 2

\* a date of the proleptic Gregorian calendar; year 0 stands for no date. A
\* recurrence argument is the record of the parts _parse_recurrence tells
\* apart: kind "" is the empty string, "other" any text that is no pattern
Date(y, m, d) == [year |-> y, month |-> m, day |-> d]

\* calendar.monthrange(year, month)[1]
monthrange(year, month) ==
    IF month = 2
    THEN IF year % 4 = 0 /\ (year % 100 # 0 \/ year % 400 = 0) THEN 29 ELSE 28
    ELSE IF month \in {4, 6, 9, 11} THEN 30 ELSE 31

\* date + timedelta(days): through the ordinals of the two dates, as datetime
\* does; beyond date.max (9999-12-31) the addition raises OverflowError
date_add(date, days) ==
    LET dby(y) == (y - 1) * 365 + (y - 1) \div 4 - (y - 1) \div 100 + (y - 1) \div 400
        leap(y) == y % 4 = 0 /\ (y % 100 # 0 \/ y % 400 = 0)
        dbm(y, m) == <<0, 31, 59, 90, 120, 151, 181, 212, 243, 273, 304, 334, 365>>[m]
                     + (IF m > 2 /\ leap(y) THEN 1 ELSE 0)
        ordinal == dby(date.year) + dbm(date.year, date.month) + date.day + days
        n0 == ordinal - 1
        n400 == n0 \div 146097
        r400 == n0 % 146097
        n100 == r400 \div 36524
        r100 == r400 % 36524
        n4 == r100 \div 1461
        r4 == r100 % 1461
        n1 == r4 \div 365
        r1 == r4 % 365
        year == n400 * 400 + n100 * 100 + n4 * 4 + n1 + 1
        month == CHOOSE m \in 1..12 : dbm(year, m) <= r1 /\ r1 < dbm(year, m + 1)
    IN IF ordinal > dby(9999) + 365
       THEN [raises |-> "OverflowError"]
       ELSE IF n1 = 4 \/ n100 = 4
       THEN Date(year - 1, 12, 31)
       ELSE Date(year, month, r1 - dbm(year, month) + 1)

\* _parse_recurrence: a number of days, the "monthly" sentinel or None
parse_recurrence(pattern) ==
    CASE pattern.kind = "daily" -> [kind |-> "timedelta", days |-> 1]
      [] pattern.kind = "weekly" -> [kind |-> "timedelta", days |-> 7]
      [] pattern.kind = "monthly" -> [kind |-> "monthly", days |-> 0]
      [] pattern.kind = "every_days" /\ pattern.n >= 1 -> [kind |-> "timedelta", days |-> pattern.n]
      [] pattern.kind = "every_weeks" /\ pattern.n >= 1 -> [kind |-> "timedelta", days |-> 7 * pattern.n]
      [] OTHER -> [kind |-> "None", days |-> 0]

\* _compute_next_due: no date ("") for no pattern, [raises |-> ...] for the
\* exception date() and date + timedelta raise
compute_next_due(current_due, pattern, today) ==
    LET key(d) == d.year * 10000 + d.month * 100 + d.day
        base == IF key(current_due) >= key(today) THEN current_due ELSE today
        delta == parse_recurrence(pattern)
        month == IF base.month + 1 > 12 THEN 1 ELSE base.month + 1
        year == IF base.month + 1 > 12 THEN base.year + 1 ELSE base.year
        max_day == monthrange(year, month)
    IN IF delta.kind = "None" THEN Date(0, 0, 0)
       ELSE IF delta.kind = "monthly"
       THEN IF year > 9999 THEN [raises |-> "ValueError"]
            ELSE Date(year, month, IF base.day < max_day THEN base.day ELSE max_day)
       ELSE date_add(base, delta.days)

\* _find_similar_tasks: the open tasks whose words, stop words left out, overlap
\* with the description's by a Jaccard similarity of 0.5 or more
find_similar_tasks(description, existing_tasks) ==
    LET tokenize(text) == {text[i] : i \in 1..Len(text)} \ {"the"}
        new_tokens == tokenize(description)
        similar(task) ==
            /\ tokenize(task.desc) # {}
            /\ 2 * Cardinality(new_tokens \cap tokenize(task.desc))
                   >= Cardinality(new_tokens \cup tokenize(task.desc))
    IN IF new_tokens = {} THEN <<>> ELSE SelectSeq(existing_tasks, similar)

\* faulty variant: add_task without the check of the recurrence arguments
add_task_unchecked(file, task_description, due_date, assigned_to, skip_duplicate_check, recurring) ==
    [file |-> Append(file, [done |-> FALSE, desc |-> task_description, assignee |-> assigned_to,
                            recurring |-> recurring, due |-> due_date]),
     msg |-> "Successfully added task"]

\* add_task on the lines file: the lines it leaves and the message it returns
add_task(file, task_description, due_date, assigned_to, skip_duplicate_check, recurring) ==
    LET open_tasks == SelectSeq(file, LAMBDA line : ~line.done)
    IN IF recurring.kind # "" /\ parse_recurrence(recurring).kind = "None"
       THEN [file |-> file, msg |-> "Invalid recurrence pattern"]
       ELSE IF recurring.kind # "" /\ due_date.year = 0
       THEN [file |-> file, msg |-> "Recurring tasks require a due_date"]
       ELSE IF ~skip_duplicate_check /\ find_similar_tasks(task_description, open_tasks) # <<>>
       THEN [file |-> file, msg |-> "Similar task(s) already exist"]
       ELSE [file |-> Append(file, [done |-> FALSE, desc |-> task_description,
                                    assignee |-> assigned_to, recurring |-> recurring,
                                    due |-> due_date]),
             msg |-> "Successfully added task"]

InitRecur ==
    /\ tin \in [today : {Date(2024, 1, 31), Date(2026, 11, 5)}]
    /\ tasks_md \in UNION {[1..n ->
           {[done |-> FALSE, desc |-> <<"water", "garlic">>, assignee |-> "bob",
             recurring |-> [kind |-> "monthly", n |-> 0], due |-> Date(2023, 1, 31)],
            [done |-> FALSE, desc |-> <<"water", "the", "tomato">>, assignee |-> "",
             recurring |-> [kind |-> "every_days", n |-> 3], due |-> Date(2026, 12, 31)],
            [done |-> FALSE, desc |-> <<"water", "tomato">>, assignee |-> "",
             recurring |-> [kind |-> "monthly", n |-> 0], due |-> Date(2027, 1, 31)],
            [done |-> FALSE, desc |-> <<"mulch">>, assignee |-> "bob",
             recurring |-> [kind |-> "every_weeks", n |-> 500000], due |-> Date(2026, 12, 31)],
            [done |-> FALSE, desc |-> <<"mulch">>, assignee |-> "",
             recurring |-> [kind |-> "", n |-> 0], due |-> Date(0, 0, 0)],
            [done |-> TRUE, desc |-> <<"water", "garlic">>, assignee |-> "",
             recurring |-> [kind |-> "weekly", n |-> 0], due |-> Date(2026, 12, 31)]}] : n \in 0..MaxInitLines}
    /\ tmax = 1
    /\ tout = [call |-> "", msg |-> ""]
    /\ tpc = 0
    /\ view = [phase |-> "off"]
    /\ alerts = [sent |-> 0, flag |-> ""]
    /\ InitLoopOff
    /\ InitStoreOff

\* one call of add_task with arguments of its signature (tool_add_task passes
\* the first two, complete_task all five)
add_task_call(task_description, due_date, assigned_to, skip_duplicate_check, recurring) ==
    LET r == add_task(tasks_md, task_description, due_date, assigned_to, skip_duplicate_check, recurring)
    IN /\ tpc < MaxOps
       /\ tpc' = tpc + 1
       /\ tasks_md' = r.file
       /\ tout' = [call |-> "add_task", msg |-> r.msg,
                   args |-> [desc |-> task_description, assignee |-> assigned_to,
                             recurring |-> recurring, due |-> due_date,
                             skip_duplicate_check |-> skip_duplicate_check]]
       /\ UNCHANGED <<tin, tmax, view, alerts, loopVars, storeVars>>

\* one call of complete_task: every open line holding the snippet is marked
\* done; the first of them is the one looked at for a next occurrence
complete_task(task_snippet) ==
    LET holds(line) == ~line.done /\ (task_snippet = line.assignee
                                      \/ \E i \in 1..Len(line.desc) : line.desc[i] = task_snippet)
        new_lines == [i \in 1..Len(tasks_md) |->
                         IF holds(tasks_md[i]) THEN [tasks_md[i] EXCEPT !.done = TRUE] ELSE tasks_md[i]]
        matched_line == tasks_md[CHOOSE i \in 1..Len(tasks_md) :
                                     holds(tasks_md[i]) /\ \A j \in 1..(i - 1) : ~holds(tasks_md[j])]
        next_due == compute_next_due(matched_line.due, matched_line.recurring, tin.today)
    IN /\ tpc < MaxOps
       /\ tpc' = tpc + 1
       /\ IF \A i \in 1..Len(tasks_md) : ~holds(tasks_md[i])
          THEN /\ tout' = [call |-> "complete_task", msg |-> "No pending task found", next_due |-> Date(0, 0, 0)]
               /\ UNCHANGED tasks_md
          ELSE IF matched_line.recurring.kind = ""
          THEN /\ tout' = [call |-> "complete_task", msg |-> "Successfully marked", next_due |-> Date(0, 0, 0)]
               /\ tasks_md' = new_lines
          ELSE IF matched_line.due.year = 0
          THEN /\ tout' = [call |-> "complete_task", msg |-> "Warning: recurring task has no [Due:] date", next_due |-> Date(0, 0, 0)]
               /\ tasks_md' = new_lines
          ELSE IF "raises" \in DOMAIN next_due
          THEN /\ tout' = [call |-> "complete_task", msg |-> "Error completing task", next_due |-> next_due]
               /\ tasks_md' = new_lines
          ELSE IF next_due.year = 0
          THEN /\ tout' = [call |-> "complete_task", msg |-> "Successfully marked", next_due |-> Date(0, 0, 0)]
               /\ tasks_md' = new_lines
          ELSE /\ tout' = [call |-> "complete_task", msg |-> "Next occurrence scheduled", next_due |-> next_due]
               /\ tasks_md' = add_task(new_lines, matched_line.desc, next_due, matched_line.assignee,
                                       TRUE, matched_line.recurring).file
       /\ UNCHANGED <<tin, tmax, view, alerts, loopVars, storeVars>>

NextRecur ==
    \/ \E d \in {<<"water">>, <<"water", "garlic">>, <<"the">>},
          due \in {Date(0, 0, 0), Date(2026, 12, 31)},
          a \in {"", "bob"},
          s \in BOOLEAN,
          r \in {[kind |-> "", n |-> 0], [kind |-> "weekly", n |-> 0], [kind |-> "every_days", n |-> 0], [kind |-> "other", n |-> 0]} :
            add_task_call(d, due, a, s, r)
    \/ \E s \in {"water", "garlic", "mulch", "bob", "hoe"} : complete_task(s)

SpecRecur == InitRecur /\ [][NextRecur]_vars

\* ------------------------------------ ProgressTracker (services/progress.py)
\* SpecProgress: a ProgressTracker and the events sent to it, in any order.
\* tout is the tracker: its two counters and its phase.

\* tools the model lets a tracker count
MaxCompleted == 35

\* agent outputs the model lets a tracker count
MaxIterations == 6

BAR_WIDTH == 20

\* faulty variant: the percentage without the cap at 90
percent_uncapped(tracker) ==
    LET tenths == 10 + 3 * tracker.tool_calls_completed + tracker.agent_iterations
    IN IF tracker.phase = "done" THEN 100 ELSE (100 * (tenths - 10)) \div tenths

\* ProgressTracker.percent: int(100 * (1 - 1 / (1 + 0.3 * tools + 0.1 * iterations)))
\* capped at 90, in tenths so that the division is one of integers
percent(tracker) ==
    LET tenths == 10 + 3 * tracker.tool_calls_completed + tracker.agent_iterations
        raw == (100 * (tenths - 10)) \div tenths
    IN IF tracker.phase = "done" THEN 100
       ELSE IF raw < 90 THEN raw ELSE 90

\* ProgressTracker.render_bar: the cells between the brackets; a string
\* repeated a negative number of times is empty
render_bar(tracker) ==
    LET filled == (BAR_WIDTH * percent(tracker)) \div 100
        empty == BAR_WIDTH - filled
    IN [i \in 1..filled |-> "FILLED"] \o [i \in 1..empty |-> "EMPTY"]

InitProgress ==
    /\ tout = [tool_calls_completed |-> 0, agent_iterations |-> 0, phase |-> "thinking"]
    /\ tin = <<>>
    /\ tmax = 1
    /\ tpc = "track"
    /\ InitLoopOff
    /\ InitStoreOff
    /\ InitFlowOff

on_agent_output ==
    /\ tpc = "track"
    /\ tout.agent_iterations < MaxIterations
    /\ tout' = [tout EXCEPT !.agent_iterations = @ + 1, !.phase = "working"]
    /\ UNCHANGED <<tin, tmax, tpc, loopVars, storeVars, flowVars>>

on_tools_complete(count) ==
    /\ tpc = "track"
    /\ tout.tool_calls_completed + count <= MaxCompleted
    /\ tout' = [tout EXCEPT !.tool_calls_completed = @ + count]
    /\ UNCHANGED <<tin, tmax, tpc, loopVars, storeVars, flowVars>>

on_final_response ==
    /\ tpc = "track"
    /\ tout' = [tout EXCEPT !.phase = "done"]
    /\ UNCHANGED <<tin, tmax, tpc, loopVars, storeVars, flowVars>>

on_error ==
    /\ tpc = "track"
    /\ tout' = [tout EXCEPT !.phase = "error"]
    /\ UNCHANGED <<tin, tmax, tpc, loopVars, storeVars, flowVars>>

NextProgress ==
    \/ on_agent_output
    \/ \E count \in {0, 1, 2, 7} : on_tools_complete(count)
    \/ on_final_response
    \/ on_error

SpecProgress == InitProgress /\ [][NextProgress]_vars

\* ================================================================ claims
InFlight(n) == pc[n] \in {"load", "input", "agent", "model", "tools", "end"}

\* no graph invocation is open on thread t
Quiescent(t) == \A n \in Turns : thread[n] = t => ~InFlight(n)

\* the ids of the calls of an AI message
CallIds(m) == {m.calls[k].cid : k \in 1..Len(m.calls)}

\* the AI message at position a is followed by one ToolMessage per call id
Answered(h, a) ==
    LET k == Len(h[a].calls) IN
        /\ a + k <= Len(h)
        /\ \A j \in 1..k : h[a + j].role = "T"
        /\ {h[a + j].call : j \in 1..k} = CallIds(h[a])

\* the ToolMessage at position i answers a call of the AI message before its block
Answers(h, i) ==
    \E a \in 1..(i - 1) :
        /\ h[a].role = "A"
        /\ i - a <= Len(h[a].calls)
        /\ \A j \in (a + 1)..i : h[j].role = "T"
        /\ h[i].call \in CallIds(h[a])

WellFormed(h) ==
    \A i \in 1..Len(h) :
        /\ (h[i].role = "A" /\ Len(h[i].calls) > 0) => Answered(h, i)
        /\ h[i].role = "T" => Answers(h, i)

\* C1: for every thread id at most one graph invocation is in flight at any
\* time, whatever the interleaving of messages, button callbacks and jobs
C1_OneTurnPerThread ==
    \A m, n \in Turns : (m # n /\ InFlight(m) /\ InFlight(n)) => thread[m] # thread[n]

\* C2: when an invocation ends with the timeout outcome, the checkpoint store of
\* its thread holds no message of that invocation (neither its Human message
\* nor any AI or Tool message produced in it)
C2_TimeoutPersistsNothing ==
    \A n \in Turns :
        outcome[n] = "timeout" =>
            \A i \in 1..Len(store[thread[n]]) : store[thread[n]][i].turn # n

\* C3: once the invocations on a thread have completed or timed out, the
\* persisted history is well-formed: every ToolResult answers a call of the
\* preceding AI message and every AI message with tool calls is followed by one
\* ToolResult per call id
C3_PersistedWellFormed ==
    \A t \in Threads : Quiescent(t) => WellFormed(store[t])

\* every AI message of invocation n in h that carries tool calls has its results
TurnAnswered(h, n) ==
    \A i \in 1..Len(h) :
        (h[i].role = "A" /\ h[i].turn = n /\ Len(h[i].calls) > 0) => Answered(h, i)

\* the name requested under call id c by some AI message of h
NameOf(h, c) ==
    LET a == CHOOSE i \in 1..Len(h) : h[i].role = "A" /\ c \in CallIds(h[i])
        k == CHOOSE j \in 1..Len(h[a].calls) : h[a].calls[j].cid = c
    IN h[a].calls[k].name

\* C4: an invocation hands a final answer to its caller only when the most
\* recent model response carries zero tool calls and no tool call of the
\* invocation is unanswered; a response with tool calls sends the loop to the
\* tools step, and the tools step leads back to the model
C4_AnswerOnlyWithoutToolCalls ==
    [][\A n \in Turns :
        /\ (outcome[n] # "answer" /\ outcome'[n] = "answer") =>
              /\ Last(msgs[n]).role = "A"
              /\ Last(msgs[n]).turn = n
              /\ Len(Last(msgs[n]).calls) = 0
              /\ TurnAnswered(msgs[n], n)
        /\ (pc[n] = "model" /\ pc'[n] \in {"tools", "end"}) =>
              (pc'[n] = "tools" <=> Len(Last(msgs'[n]).calls) > 0)
        /\ (pc[n] = "tools" /\ pc'[n] \notin {"tools", "returned"}) => pc'[n] = "agent"
      ]_vars

\* an answer given after a tool round
C4_Witness ==
    \E n \in Turns : outcome[n] = "answer" /\ rounds[n] > 0

\* C5: whenever the model is invoked, every response of the invocation that
\* carried tool calls is followed by exactly one ToolResult per call id (an
\* error result for a name that is not registered), all of them already in
\* the conversation: the model never sees partial tool output
C5_OneResultPerCall ==
    \A n \in Turns :
        pc[n] = "model" =>
            /\ TurnAnswered(conv[n], n)
            /\ TurnAnswered(msgs[n], n)
            /\ \A i \in 1..Len(conv[n]) :
                  (conv[n][i].role = "T" /\ conv[n][i].turn = n) =>
                      /\ Answers(conv[n], i)
                      /\ NameOf(conv[n], conv[n][i].call) \notin TOOLS =>
                            conv[n][i].status = "error"

\* the model is invoked again after a response with two calls, one of them for
\* a name that is not registered
C5_Witness ==
    \E n \in Turns :
        /\ pc[n] = "model"
        /\ \E i \in 1..Len(conv[n]) :
              /\ conv[n][i].role = "A"
              /\ conv[n][i].turn = n
              /\ Len(conv[n][i].calls) = 2
              /\ \E k \in 1..2 : conv[n][i].calls[k].name \notin TOOLS
              /\ \E k \in 1..2 : conv[n][i].calls[k].name \in TOOLS

\* number of Human messages of h
TurnCount(h) == Cardinality({i \in 1..Len(h) : h[i].role = "H"})

\* C6: for a history with at most max_turns turns trim_messages_for_context
\* returns the input unchanged
C6_NoTrimWithinWindow ==
    (tpc = "done" /\ TurnCount(tin) <= tmax) => tout = tin

\* a history with exactly max_turns turns that does not start with its first
\* Human message
C6_Witness ==
    /\ tpc = "done"
    /\ TurnCount(tin) = tmax
    /\ Len(tin) >= 3
    /\ tin[1].role = "A"
    /\ tout = tin

\* C7: for a history with more than max_turns turns the result is the leading
\* System messages followed by the suffix that starts at the max_turns-th most
\* recent Human message, and it holds exactly max_turns turns
C7_WindowIsLastTurns ==
    (tpc = "done" /\ TurnCount(tin) > tmax) =>
        /\ TurnCount(tout) = tmax
        /\ \E c \in 1..Len(tin), k \in 0..Len(tin) :
              /\ tin[c].role = "H"
              /\ Cardinality({i \in c..Len(tin) : tin[i].role = "H"}) = tmax
              /\ \A i \in 1..k : tin[i].role = "S"
              /\ k < Len(tin) => tin[k + 1].role # "S"
              /\ tout = SubSeq(tin, 1, k) \o SubSeq(tin, c, Len(tin))

\* a history with a leading System message and more than max_turns turns
C7_Witness ==
    /\ tpc = "done"
    /\ TurnCount(tin) > tmax
    /\ tmax >= 2
    /\ tin[1].role = "S"
    /\ Len(tout) < Len(tin)

\* C8: after an invocation on a thread with more than max_turns turns the
\* messages outside the kept window are removed from the persisted store: once
\* every invocation on the thread has returned its answer the store holds at
\* most max_turns turns
C8_EvictedFromStore ==
    \A t \in Threads :
        (/\ \E n \in Turns : thread[n] = t
         /\ \A n \in Turns : thread[n] = t => outcome[n] = "answer")
        => TurnCount(store[t]) <= DefaultMaxTurns

\* C9: in every model invocation all messages from the most recent Human
\* message onward are in the conversation, unmodified and in order
C9_CurrentTurnKept ==
    \A n \in Turns :
        pc[n] = "model" =>
            \E h \in 1..Len(msgs[n]) :
                /\ msgs[n][h].role = "H"
                /\ \A i \in (h + 1)..Len(msgs[n]) : msgs[n][i].role # "H"
                /\ Len(conv[n]) >= Len(msgs[n]) - h + 1
                /\ \A i \in h..Len(msgs[n]) :
                      conv[n][Len(conv[n]) - (Len(msgs[n]) - i)] = msgs[n][i]

\* a model invocation after a tool round on a thread that has been trimmed
C9_Witness ==
    \E n \in Turns :
        /\ pc[n] = "model"
        /\ rounds[n] > 0
        /\ TurnCount(msgs[n]) > DefaultMaxTurns
        /\ Len(conv[n]) < Len(msgs[n])

C11_NoSystemPersisted ==
    \A t \in Threads : \A i \in 1..Len(store[t]) : store[t][i].role # "S"

\* a thread holding the messages of an answered invocation with a tool round
C11_Witness ==
    \E n \in Turns :
        /\ outcome[n] = "answer"
        /\ rounds[n] > 0
        /\ \E i \in 1..Len(store[thread[n]]) :
              store[thread[n]][i].turn = n /\ store[thread[n]][i].role = "T"

\* a message of the conversation that belongs to a turn before the current one:
\* a Human message follows it
OldTurn(c, i) == \E j \in (i + 1)..Len(c) : c[j].role = "H"

\* C12: in the conversation given to the model, a Human or Tool message of a turn
\* other than the current one is size-limited: it is cut to a prefix, so a
\* content of a whole ingestion chunk is never presented in full
C12_OldMessagesSizeLimited ==
    tpc = "done" =>
        \A i \in 1..Len(tout) :
            (tout[i].role \in {"H", "T"} /\ OldTurn(tout, i)) => tout[i].len < INGESTION_CHUNK_SIZE

\* the registered tool a requested name stands for: the name itself, or the
\* name with the "tool_" prefix the model dropped
Canonical(nm) ==
    IF nm \in TOOLS THEN nm
    ELSE IF nm = "read_file" /\ "tool_read_file" \in TOOLS THEN "tool_read_file"
    ELSE "none"

\* C14: a tool call whose name is not registered but matches a registered tool
\* once the prefix is accounted for is rewritten to the registered name before
\* dispatch: the calls the tools node runs carry registered names in that case
C14_NamesReconciledBeforeDispatch ==
    \A n \in Turns :
        pc[n] = "tools" =>
            \A k \in 1..Len(Last(msgs[n]).calls) :
                Canonical(Last(msgs[n]).calls[k].name) # "none"
                    => Last(msgs[n]).calls[k].name \in TOOLS

\* the rows of one thread id in a table
RowsOf(rows, id) == {r \in rows : r.thread_id = id}

\* the date a thread id carries is older than the retention window
Outdated(id) == id.date < Today - DB_PRUNE_RETENTION_DAYS

\* the step in which a prune run commits
PruneCommits == ppc.phase = "commit" /\ ppc'.phase = "vacuum"

TableNames == {"checkpoints", "writes"}

\* C15: for every ephemeral thread id the bot creates, a prune run deletes all
\* of its checkpoint and write rows when the date it carries is older than the
\* retention window, and none of them otherwise
C15_EphemeralExpiry ==
    [][PruneCommits =>
        \A id \in EphemeralIds : \A table \in TableNames :
            IF Outdated(id)
            THEN RowsOf(db'[table], id) = {}
            ELSE RowsOf(db'[table], id) = RowsOf(db[table], id)]_vars

\* checkpoint ids of one thread id in a checkpoints table
RevsOf(checkpoints, id) == {r.checkpoint_id : r \in RowsOf(checkpoints, id)}

\* the n most recent of a set of checkpoint ids
MostRecent(ids, n) == {x \in ids : Cardinality({y \in ids : y > x}) < n}

\* C16: a prune run leaves exactly the DB_PRUNE_MAX_CHECKPOINTS most recent
\* checkpoints of every thread id that is not ephemeral and has more than that
\* many, and leaves a thread with at most that many unchanged
C16_PersistentCap ==
    [][PruneCommits =>
        \A id \in {r.thread_id : r \in db.checkpoints} \ EphemeralIds :
            LET before == RevsOf(db.checkpoints, id)
                after == RevsOf(db'.checkpoints, id)
            IN IF Cardinality(before) > DB_PRUNE_MAX_CHECKPOINTS
               THEN /\ after = MostRecent(before, DB_PRUNE_MAX_CHECKPOINTS)
                    /\ Cardinality(after) = DB_PRUNE_MAX_CHECKPOINTS
               ELSE after = before]_vars

\* a run has committed and the channel thread, which had MaxRevs checkpoints,
\* holds the last DB_PRUNE_MAX_CHECKPOINTS of them
C16_Witness ==
    /\ ppc.phase = "vacuum"
    /\ MaxRevs > DB_PRUNE_MAX_CHECKPOINTS
    /\ RevsOf(db.checkpoints, ChannelId) = (MaxRevs - DB_PRUNE_MAX_CHECKPOINTS + 1)..MaxRevs

\* a step that removes a committed row of a table
RowsRemoved == \E table \in TableNames : db[table] \ db'[table] # {}

GardenReset == clr.kind = "garden" /\ clr.step = ClearSteps("garden") /\ clear_confirm

C18_OnePruneRun == running <= 1

\* a run is in the middle of its transaction, with its first deletions pending
C18_Witness ==
    /\ running = 1
    /\ ppc.phase = "persistent"
    /\ ptx # db

\* the tables after every deletion of one prune run: the rows no ephemeral
\* prefix expires, without those below the cutoff id of a persistent thread
AfterRun(d) ==
    LET kept(rows) ==
            {r \in rows : \A i \in DOMAIN ephemeral_prefixes :
                             r \in delete_ephemeral({r}, ephemeral_prefixes[i])}
        cps == kept(d.checkpoints)
    IN [checkpoints |-> delete_older(cps, cps), writes |-> delete_older(kept(d.writes), cps)]

\* C19: the deletions of one prune run are one transaction: a step of the run
\* either leaves the committed tables as they are (a statement, or a failure
\* before the commit, which ends the run) or is the commit and applies all of
\* the run's deletions at once, so no reader sees part of them
C19_PruneIsOneTransaction ==
    [][ppc' # ppc => (db' = db \/ (PruneCommits /\ db' = AfterRun(db)))]_vars

\* a run is about to commit with deletions of an expired ephemeral thread and of
\* a capped channel thread pending, none of them visible yet
C19_Witness ==
    /\ ppc.phase = "commit"
    /\ StoreOpen
    /\ \E r \in db.checkpoints \ ptx.checkpoints : r.thread_id = ChannelId
    /\ \E r \in db.writes \ ptx.writes : r.thread_id \in EphemeralIds

\* invocation n was made by process_llm_request
ByProcessLlmRequest(n) == thread[n] \in {thread_id(c) : c \in Callers}

\* what process_llm_request returns: the answer text or one of three messages
ReturnValues == {"answer", "timeout", "rate_limit", "error"}

\* a returned call returned one of the four values
C20_Returned ==
    \A n \in Turns : (pc[n] = "returned" /\ ByProcessLlmRequest(n)) => outcome[n] \in ReturnValues

\* the deadline can end the call at every position of the loop, in any round
C20_Deadline ==
    \A n \in Turns :
        pc[n] \in {"load", "input", "agent", "model", "tools"} => ENABLED wait_for_timeout(n)

\* the graph is entered only from the start of a call, and a returned call
\* stays returned with the value it gave: no second invocation, no retry
C20_OneInvocation ==
    \A n \in Turns :
        /\ (pc'[n] = "load" /\ pc[n] # "load") => pc[n] = "idle"
        /\ pc[n] = "returned" => (pc'[n] = "returned" /\ outcome'[n] = outcome[n])

\* C20: every call of process_llm_request eventually returns exactly one of the
\* answer, the timeout message, the rate-limit message and the error message,
\* and never raises; the graph is invoked once per call, under one deadline
\* that covers every loop iteration, and a timeout is not retried
C20_AlwaysReturnsOnce ==
    /\ [](C20_Returned /\ C20_Deadline)
    /\ [][C20_OneInvocation]_vars
    /\ \A n \in Turns :
          (pc[n] = "load" /\ ByProcessLlmRequest(n)) ~> (pc[n] = "returned")

\* a call has returned the rate-limit message and another, after a tool round,
\* the timeout message
C20_Witness ==
    \E n \in Turns, m \in Turns :
        /\ ByProcessLlmRequest(n) /\ pc[n] = "returned" /\ outcome[n] = "rate_limit"
        /\ ByProcessLlmRequest(m) /\ pc[m] = "returned" /\ outcome[m] = "timeout"
        /\ rounds[m] > 0
\* the markers of a quota failure: "quota", the exhaustion status ("resource"
\* with "exhausted") or "429", in any case of the letters
QuotaMarked(text) ==
    \/ \E w \in text : w \in {"Quota", "quota"}
    \/ "429" \in text
    \/ (\E w \in text : w \in {"Resource", "resource"}) /\ "exhausted" \in text

\* the two exceptions of tin, with what was delivered for each
Handled == IF tpc = "done" /\ "path" \in DOMAIN tin
           THEN {<<tin.e1, tout[1]>>, <<tin.e2, tout[2]>>}
           ELSE {}

Reports == tin.path = "process_llm_request" \/ tin.channel

\* C21: a backend failure (no timeout) whose text carries a quota, exhaustion
\* or 429 marker is reported as the try-again-later message, and one carrying
\* none of them as the error message, on both paths
C21_QuotaReported ==
    \A h \in Handled :
        (~h[1].timeout /\ Reports) =>
            h[2].msg = (IF QuotaMarked(h[1].text) THEN "rate_limit" ELSE "error")

C21_Witness ==
    /\ tpc = "done" /\ "path" \in DOMAIN tin
    /\ tin.path = "run_daily_report_logic" /\ tin.channel
    /\ ~tin.e1.timeout /\ tin.e1.text = {"Quota", "secret"} /\ tout[1].msg = "rate_limit"
    /\ ~tin.e2.timeout /\ tin.e2.text = {"exhausted", "secret"} /\ tout[2].msg = "error"

\* C22: two exceptions that are neither a timeout nor a quota failure are
\* answered with the same text, which holds nothing of the exception's text
C22_GenericMessageOpaque ==
    \A g, h \in Handled :
        (/\ Reports
         /\ ~g[1].timeout /\ ~QuotaMarked(g[1].text)
         /\ ~h[1].timeout /\ ~QuotaMarked(h[1].text))
        => g[2] = h[2] /\ g[2].detail = {}

\* thread ids that have persisted rows
ThreadIds == {r.thread_id : r \in db.checkpoints \cup db.writes}

\* a step of an agent turn on the store: its checkpoint write or one of its
\* tool calls
TurnStep == checkpoint_put \/ \E filename \in FileNames : tool_delete_file(filename)

\* the rows of thread id b are the same before and after the step
RowsKept(b) == \A table \in TableNames : RowsOf(db'[table], b) = RowsOf(db[table], b)

\* C23: a step of a turn, which runs on one thread id a, leaves the persisted
\* rows of every other thread id b as they are
C23_TurnLeavesOtherThreads ==
    [][TurnStep => \E a \in ThreadIds \cup {ChannelId} : \A b \in ThreadIds \ {a} : RowsKept(b)]_vars

\* the checkpoint writes of the graph alone: the history stored for a thread id
\* changes only in a step of an invocation configured with that thread id
C23_CheckpointsKeyedByThread ==
    [][\A t \in Threads : store'[t] # store[t] => \E n \in Turns : pc'[n] # pc[n] /\ thread[n] = t]_vars

\* C24: every tool call returns text, whatever the state of the files it
\* works on: no exception leaves the tool function
C24_ToolsReturnText == (tpc = "done" /\ "tool" \in DOMAIN tin) => tout = "text"

\* the same for every tool but tool_backup_file
C24_OtherToolsReturnText ==
    (tpc = "done" /\ "tool" \in DOMAIN tin /\ tin.tool # "tool_backup_file") => tout = "text"

\* the confirm presses that open every step of a flow of the kind, all by user
AllConfirmedBy(user, kind) == [i \in 1..(IF kind = "topic" THEN 2 ELSE 3) |-> user]

\* C25: a step of a !clear flow removes files only when it is the last confirm
\* of the flow and the confirm button was pressed at every step (2 for a
\* topic, 3 for knowledge and garden) by the user who gave the command; a
\* cancel, a timeout and a click of another user remove no file
C25_DeleteOnlyAfterAllConfirms ==
    [][clr' # clr =>
         IF clr.state = "open" /\ clr'.state = "done"
         THEN clr'.pressed = AllConfirmedBy(clr.author, clr.kind)
         ELSE files' = files]_vars

C25_Witness ==
    /\ clr.state = "done" /\ clr.kind = "topic" /\ clr.file = "garlic.md"
    /\ clr.author = "alice" /\ clr.pressed = <<"alice", "alice">>
    /\ "garlic.md" \notin files /\ "tasks.md" \in files

\* the last confirm of !clear garden
GardenResetStep == clr.kind = "garden" /\ clr.state = "open" /\ clr'.state = "done"

\* C26: no step of !clear <topic>, of !clear knowledge or of tool_delete_file
\* removes a system file: a system file disappears only in the reset of
\* !clear garden
C26_SystemFilesKept ==
    [][\A f \in SYSTEM_FILES : (f \in files /\ f \notin files') => GardenResetStep]_vars

C26_Witness ==
    /\ clr.state = "done" /\ clr.kind = "knowledge"
    /\ "garlic.md" \notin files /\ SYSTEM_FILES \subseteq files

\* C27: at most one weather alert is sent on one day
C27_OneAlertPerDay == alerts.sent <= 1

\* two alerts on one day with the reset of !clear garden gone through
C27_AlertThenReset ==
    /\ alerts.sent = 2 /\ alerts.flag = "today"
    /\ clr.kind = "garden" /\ clr.state = "done"

\* the open tasks of tasks.md
StillOpen == Range(tasks_md.open)

\* the lowest index of a group
FirstOf(group) == CHOOSE x \in Range(group.indices) : \A y \in Range(group.indices) : x <= y

\* C28: once the decisions are applied, a group decided Remove Duplicates has
\* its lowest-index task still open and its other tasks gone, and a group
\* decided Keep All has all its tasks still open
C28_DecisionsApplied ==
    view.phase = "applied" =>
        \A k \in 1..Len(view.groups) :
            /\ view.decisions[k] = "remove_dups" =>
                  /\ FirstOf(view.groups[k]) \in StillOpen
                  /\ \A t \in Range(view.groups[k].indices) \ {FirstOf(view.groups[k])} :
                        t \notin StillOpen
            /\ view.decisions[k] = "keep" => Range(view.groups[k].indices) \subseteq StillOpen

\* the same for the groups whose indices are all different
C28_DistinctIndices ==
    (/\ view.phase = "applied"
     /\ \A k \in 1..Len(view.groups) :
           Cardinality(Range(view.groups[k].indices)) = Len(view.groups[k].indices))
    => C28_DecisionsApplied

\* C29: tasks.md changes only in the step that records the decision of the
\* last group; after a timeout or with groups left undecided it is as it was
C29_NoChangeBeforeLastDecision ==
    [][tasks_md' # tasks_md =>
         /\ view.phase = "open"
         /\ view'.phase = "applied"
         /\ Len(view'.decisions) = Len(view.groups)]_vars

C29_Witness ==
    /\ view.phase = "timed_out"
    /\ Len(view.groups) = 2
    /\ view.decisions = <<"remove_dups">>
    /\ tasks_md.open = OpenTasks

\* the most recent checkpoint id of a thread id, 0 without checkpoints
Latest(checkpoints, id) ==
    LET ids == RevsOf(checkpoints, id)
    IN IF ids = {} THEN 0 ELSE CHOOSE x \in ids : \A y \in ids : y <= x

\* what is loaded for a thread id: its most recent checkpoint and the writes
\* pending on it
Loaded(d, id) ==
    [table \in TableNames |->
        {r \in RowsOf(d[table], id) : r.checkpoint_id = Latest(d.checkpoints, id)}]

\* C30: a prune run keeps the most recent checkpoint of every thread id that
\* is not ephemeral, with its writes: what is loaded for the thread is the same
\* before and after the run commits
C30_LatestCheckpointKept ==
    [][PruneCommits =>
        \A id \in {r.thread_id : r \in db.checkpoints} \ EphemeralIds :
            /\ Latest(db'.checkpoints, id) = Latest(db.checkpoints, id)
            /\ Loaded(db', id) = Loaded(db, id)]_vars

\* a run has committed on a channel thread of 22 checkpoints: the two oldest
\* are gone, the most recent and its write are there
C30_Witness ==
    /\ ppc.phase = "vacuum"
    /\ RevsOf(db.checkpoints, ChannelId) = 3..(DB_PRUNE_MAX_CHECKPOINTS + 2)
    /\ Loaded(db, ChannelId).writes # {}
    /\ Latest(db.checkpoints, ChannelId) = DB_PRUNE_MAX_CHECKPOINTS + 2

\* the messages of h behind its leading System messages
Body(h) == SubSeq(h, Len(leading_system(h)) + 1, Len(h))

\* C31: for a well-formed history the list trim_messages_for_context returns
\* is well-formed, and when turns were dropped its first message behind the
\* leading System messages is a Human message: every ToolMessage it holds has
\* the AI message that issued its call before it in the list
C31_WindowWellFormed ==
    (tpc = "done" /\ WellFormed(tin)) =>
        /\ WellFormed(tout)
        /\ tout # tin => (Body(tout) # <<>> /\ Body(tout)[1].role = "H")

\* a well-formed history whose last turn, with a tool round, is all that is kept
C31_Witness ==
    /\ tpc = "done"
    /\ WellFormed(tin)
    /\ Len(tout) < Len(tin)
    /\ \E i \in 1..Len(tin) : tin[i].role = "T"
    /\ \E i \in 2..Len(tout) : tout[i].role = "T" /\ Answers(tout, i)

\* C32: channel guidance of earlier turns does not accumulate in a thread's
\* checkpoint history: once no turn is open on a thread, of the messages the
\* turns of the behaviour persisted on it at most one (the last turn's
\* HumanMessage) carries guidance text.
C32_GuidanceNotAccumulated ==
    \A t \in Threads :
        Quiescent(t) =>
            Cardinality({i \in DOMAIN store[t] :
                            store[t][i].turn >= 1 /\ store[t][i].guidance # ""}) <= 1

\* C33: _chunk_text terminates for every text and every max_size >= 1 and
\* returns chunks of at most max_size characters that are not empty when the
\* text is not: every iteration of the loop that goes round again leaves a
\* shorter text behind (the loop's variant), and every chunk appended so far
\* has between 1 and max_size characters.
C33_ChunkTerminates ==
    [][(tpc = "while" /\ tpc' = "while") =>
          /\ Len(tout'.text) < Len(tout.text)
          /\ \A i \in 1..Len(tout'.chunks) :
                 Len(tout'.chunks[i]) <= tmax /\ (tin # <<>> => tout'.chunks[i] # <<>>)]_vars

\* the same for max_size >= 2
C33_FromTwo ==
    [][(tmax >= 2 /\ tpc \in {"call", "while"}) =>
          /\ tpc' = "while" => Len(tout'.text) < Len(tout.text) \/ tpc = "call"
          /\ \A i \in 1..Len(tout'.chunks) :
                 Len(tout'.chunks[i]) <= tmax /\ (tin # <<>> => tout'.chunks[i] # <<>>)]_vars

\* text is the chunks cs in order with nothing but newline characters between
\* one chunk and the next and behind the last
RECURSIVE Rebuilds(_, _)
Rebuilds(text, cs) ==
    IF cs = <<>>
    THEN \A i \in 1..Len(text) : text[i] = "\n"
    ELSE /\ Len(cs[1]) <= Len(text)
         /\ SubSeq(text, 1, Len(cs[1])) = cs[1]
         /\ \E k \in 0..(Len(text) - Len(cs[1])) :
                /\ \A i \in (Len(cs[1]) + 1)..(Len(cs[1]) + k) : text[i] = "\n"
                /\ Rebuilds(SubSeq(text, Len(cs[1]) + k + 1, Len(text)), Tail(cs))

\* C34: the chunks _chunk_text returns, concatenated in order, are the text
\* with only newline characters removed at chunk boundaries: no other
\* character is lost, duplicated or reordered.
C34_ChunksRebuildText ==
    tpc = "done" => Rebuilds(tin, tout.chunks)

\* a text cut in three or more chunks, a newline dropped at one boundary and a
\* blank carried over another
C34_Witness ==
    /\ tpc = "done"
    /\ Len(tout.chunks) >= 3
    /\ Len(tout.chunks[1]) + Len(tout.chunks[2]) + Len(tout.chunks[3]) < Len(tin)
    /\ \E i \in 2..Len(tout.chunks) : tout.chunks[i] # <<>> /\ tout.chunks[i][1] = " "

\* a valid recurrence pattern: daily, weekly, monthly, every N days or weeks
\* with N >= 1
ValidPattern(p) ==
    \/ p.kind \in {"daily", "weekly", "monthly"}
    \/ p.kind \in {"every_days", "every_weeks"} /\ p.n >= 1

DateKey(d) == d.year * 10000 + d.month * 100 + d.day

IsDate(d) == "raises" \notin DOMAIN d /\ d.year # 0

\* the lines of tasks.md a step of complete_task marked complete
Completed(i) == ~tasks_md[i].done /\ tasks_md'[i].done

\* C35: every open task with a [Recurring: ...] pattern and a [Due: ...] date
\* that a complete_task call marks complete gets a new open task with the same
\* description, assignee and pattern and the next due date (where there is one
\* to compute).
C35_AllRescheduled ==
    [][(tout'.call = "complete_task" /\ tpc' = tpc + 1) =>
          \A i \in 1..Len(tasks_md) :
              (/\ Completed(i)
               /\ ValidPattern(tasks_md[i].recurring)
               /\ tasks_md[i].due # Date(0, 0, 0)
               /\ IsDate(compute_next_due(tasks_md[i].due, tasks_md[i].recurring, tin.today)))
              => \E j \in (Len(tasks_md) + 1)..Len(tasks_md') :
                     tasks_md'[j] = [tasks_md[i] EXCEPT
                         !.due = compute_next_due(tasks_md[i].due, tasks_md[i].recurring, tin.today)]]_vars

\* the same for the first line the call marks complete
C35_FirstRescheduled ==
    [][(tout'.call = "complete_task" /\ tpc' = tpc + 1) =>
          \A i \in 1..Len(tasks_md) :
              (/\ Completed(i)
               /\ \A k \in 1..(i - 1) : ~Completed(k)
               /\ ValidPattern(tasks_md[i].recurring)
               /\ tasks_md[i].due # Date(0, 0, 0)
               /\ IsDate(compute_next_due(tasks_md[i].due, tasks_md[i].recurring, tin.today)))
              => /\ Len(tasks_md') = Len(tasks_md) + 1
                 /\ tasks_md'[Len(tasks_md')] = [tasks_md[i] EXCEPT
                         !.due = compute_next_due(tasks_md[i].due, tasks_md[i].recurring, tin.today)]]_vars

\* the line complete_task computes the next occurrence of: the first one the
\* step marked complete, where it has a valid pattern and a due date
Rescheduled(i) ==
    /\ Completed(i)
    /\ \A k \in 1..(i - 1) : ~Completed(k)
    /\ ValidPattern(tasks_md[i].recurring)
    /\ tasks_md[i].due # Date(0, 0, 0)

\* C36: for every valid recurrence pattern _compute_next_due returns a date
\* strictly later than the task's due date and than today.
C36_NextDueLater ==
    [][(tout'.call = "complete_task" /\ tpc' = tpc + 1) =>
          \A i \in 1..Len(tasks_md) :
              Rescheduled(i) =>
                  /\ IsDate(tout'.next_due)
                  /\ DateKey(tout'.next_due) > DateKey(tasks_md[i].due)
                  /\ DateKey(tout'.next_due) > DateKey(tin.today)]_vars

\* the same where the next date does not lie beyond date.max; the date
\* returned is a day of the calendar
C36_LaterWhenInRange ==
    [][(tout'.call = "complete_task" /\ tpc' = tpc + 1) =>
          \A i \in 1..Len(tasks_md) :
              (Rescheduled(i) /\ "raises" \notin DOMAIN tout'.next_due) =>
                  /\ IsDate(tout'.next_due)
                  /\ DateKey(tout'.next_due) > DateKey(tasks_md[i].due)
                  /\ DateKey(tout'.next_due) > DateKey(tin.today)
                  /\ tout'.next_due.month \in 1..12
                  /\ tout'.next_due.day \in 1..monthrange(tout'.next_due.year, tout'.next_due.month)]_vars

C38_GroupsValid ==
    view.phase # "analyzing" =>
        /\ \A g \in DOMAIN view.groups :
               /\ Len(view.groups[g].indices) >= 2
               /\ \A j \in DOMAIN view.groups[g].indices :
                      view.groups[g].indices[j] \in 0..(Len(OpenTasks) - 1)
        /\ \A g, h \in DOMAIN view.groups :
               g # h => Range(view.groups[g].indices) \cap Range(view.groups[h].indices) = {}

\* of two groups of the answer the second, which shares an index with the
\* first, was dropped
C38_Witness ==
    /\ view.phase = "open"
    /\ Len(tin) = 2
    /\ Len(view.groups) = 1
    /\ view.groups[1] = tin[1]
    /\ Range(tin[2].indices) \subseteq 0..(MaxTasks - 1)
    /\ Range(tin[2].indices) \cap Range(tin[1].indices) # {}

\* C39: after any sequence of on_agent_output, on_tools_complete,
\* on_final_response and on_error events percent is 100 when phase is "done"
\* and lies between 0 and 90 otherwise, and render_bar renders exactly
\* BAR_WIDTH cells.
C39_PercentAndBar ==
    tpc = "track" =>
        /\ tout.phase = "done" => percent(tout) = 100
        /\ tout.phase # "done" => percent(tout) \in 0..90
        /\ Len(render_bar(tout)) = BAR_WIDTH

\* a tracker that is not done and whose uncapped percentage is beyond 90
C39_Witness ==
    /\ tpc = "track"
    /\ tout.phase = "error"
    /\ tout.agent_iterations >= 1
    /\ 3 * tout.tool_calls_completed + tout.agent_iterations > 100
    /\ percent(tout) = 90
    /\ Len(SelectSeq(render_bar(tout), LAMBDA c : c = "FILLED")) = 18

====
